---- MODULE Spec2Model ----
(***************************************************************************)
(* canvas-auto-grade: the result ledger (ResultStorage), the grading       *)
(* oracle client (GradingService, llm-api) and the grade application       *)
(* engine (AssignmentProcessor), as state machines.                        *)
(***************************************************************************)
EXTENDS Integers, Sequences, FiniteSets, TLC

VARIABLES
    results,      \* ResultStorage.results of the driver's store
    ledger,       \* grade-book-<assignmentId>.json: whether it exists, and its text
    savedFrom,    \* contents of the store at the last saveResults
    fresh,        \* results of a fresh ResultStorage after loadResults
    freshLoaded,  \* whether that fresh store has loaded the ledger
    svcCall,      \* the last GradingService.gradeSubmission call and its return
    apiCall,      \* the last llm-api gradeSubmission call and its return
    batch_items,  \* GradingService.batch_items
    batchStatus,  \* where batchGradingResult is: idle, in_progress (awaiting
                  \* checkStatus), resolved, parsed, raised, detached
    job,          \* the batch job at the service, and batchProcess's poll of it
    outputFile,   \* the lines of output_file.jsonl, in the order the service wrote them
    batchResults, \* what batchGradingResult returned
    artifacts,    \* the input_file.jsonl written by each batchGradingResult call
                  \* with the requests added since the call before it, and
                  \* the requests added since the last call
    config,       \* the engine's configuration: assignmentType, binaryScore
    evaluatedGrades, \* AssignmentProcessor.evaluatedGrades
    roster,       \* the students getAllStudents returned
    idx,          \* position in the roster of the student being processed
    epc,          \* where processAssignment is
    tracker,      \* AssignmentProcessor.studentSubmissionStatus
    queue,        \* the questions of the current student still to process
    cur,          \* the current student's review: the student, the branch the
                  \* loop took after the tracker was consulted, its queue, the
                  \* questions attempted and those that raised, whether it was
                  \* finalized
    ended,        \* how the processing of each student ended
    actor,        \* the student the last step acted for
    driver,       \* the compute driver's run: where main is, the submissions
                  \* still to process, the store as loaded, the submissions
                  \* sent to the oracle, what failed
    scan,         \* getSubmissionFiles: where it is, the directory read, the
                  \* entries still to look at, the map stuIdSubFile, what it
                  \* returned
    search,       \* clickUpdateScoreButton: where it is, the buttons of the frame,
                  \* the strategy that ended it, the button clicked, whether
                  \* an error was caught
    responses,    \* the response listener: the bodies of the responses that
                  \* arrived and whose json() is still awaited, in the order
                  \* of their arrival, and for every student the entry of
                  \* the response that arrived last among those mentioning
                  \* the student
    request,      \* the rubric of a request to the oracle: the rubric text
                  \* loaded, the points of the question, the client that
                  \* built the request and the rubric text it sent
    lastOps       \* what the last step did: its writes on the grading surface
                  \* and its calls of the oracle, in order

storeVars == <<results, ledger, savedFrom, fresh, freshLoaded>>
oracleVars == <<svcCall, apiCall>>
batchVars == <<batch_items, batchStatus, job, outputFile, batchResults, artifacts>>
driverVars == <<driver, scan, search, responses, request>>
engineVars == <<config, evaluatedGrades, roster, idx, epc, tracker, queue, cur, ended,
                actor, lastOps>>

vars == <<results, ledger, savedFrom, fresh, freshLoaded, svcCall, apiCall,
          batch_items, batchStatus, job, outputFile, batchResults, artifacts,
          config, evaluatedGrades, roster, idx, epc, tracker, queue, cur, ended,
          actor, lastOps, driver, scan, search, responses, request>>

-----------------------------------------------------------------------------
(* Bounds of the model *)

MaxResults == 3
MaxGraded == 1

-----------------------------------------------------------------------------
(* JavaScript values.  Every value has the same three fields so that values  *)
(* of different JavaScript types can be compared.                            *)

JsNum(n) == [t |-> "num", n |-> n, s |-> ""]
JsStr(s) == [t |-> "str", n |-> 0, s |-> s]
JsBool(b) == [t |-> "bool", n |-> IF b THEN 1 ELSE 0, s |-> ""]
JsNaN == [t |-> "nan", n |-> 0, s |-> ""]
JsInf == [t |-> "inf", n |-> 0, s |-> ""]
JsNull == [t |-> "null", n |-> 0, s |-> ""]
JsUndefined == [t |-> "undefined", n |-> 0, s |-> ""]

\* the id of a record whose id variable is undefined
UndefinedId == "<undefined>"

\* the decimal numerals parseFloat is applied to in this model
NumeralRange == 0 .. 150

\* parseFloat on the contents of a string
ParseFloat(s) ==
    IF \E n \in NumeralRange : ToString(n) = s
    THEN JsNum(CHOOSE n \in NumeralRange : ToString(n) = s)
    ELSE IF s = "Infinity" THEN JsInf ELSE JsNaN

\* the global isNaN: its argument is converted to a number first
IsNaN(v) ==
    \/ v.t \in {"nan", "undefined"}
    \/ v.t = "str" /\ v.s # "" /\ ParseFloat(v.s).t = "nan"

\* value.toString(); defined for every value but null and undefined
ToStringJs(v) ==
    CASE v.t = "str" -> v.s
      [] v.t = "num" -> ToString(v.n)
      [] v.t = "bool" -> IF v.n = 1 THEN "true" ELSE "false"
      [] v.t = "nan" -> "NaN"
      [] v.t = "inf" -> "Infinity"
      [] OTHER -> ""

-----------------------------------------------------------------------------
(* JSON.stringify and JSON.parse of the ledger.  A number that is not       *)
(* finite is written as null; every other field value is written and read   *)
(* back as itself.                                                           *)

StringifyValue(v) == IF v.t \in {"nan", "inf"} THEN JsNull ELSE v

\* the members JSON.stringify writes for a record: a member whose value is
\* undefined is left out
StringifyRecord(r) ==
    <<[key |-> "studentId", val |-> JsStr(r.studentId)]>>
    \o (IF r.questionId = UndefinedId THEN <<>>
        ELSE <<[key |-> "questionId", val |-> JsStr(r.questionId)]>>)
    \o <<[key |-> "grade", val |-> StringifyValue(r.grade)],
         [key |-> "comment", val |-> JsStr(r.comment)],
         [key |-> "gradedAt", val |-> JsStr(r.gradedAt)]>>

\* JSON.stringify(this.results, null, 2): the objects of the array
Stringify(rs) == [i \in 1 .. Len(rs) |-> StringifyRecord(rs[i])]

\* the value of member key of a written object, undefined when it has none
MemberOf(members, key) ==
    LET hits == {i \in 1 .. Len(members) : members[i].key = key}
    IN  IF hits = {} THEN JsUndefined
        ELSE members[CHOOSE i \in hits : \A j \in hits : j <= i].val

\* the id held by a member value
IdOf(v) == IF v.t = "str" THEN v.s ELSE UndefinedId

\* JSON.parse(data) of a text written by Stringify: the records read back
ParseLedger(text) ==
    [i \in 1 .. Len(text) |->
        [studentId |-> IdOf(MemberOf(text[i], "studentId")),
         questionId |-> IdOf(MemberOf(text[i], "questionId")),
         grade |-> MemberOf(text[i], "grade"),
         comment |-> MemberOf(text[i], "comment").s,
         gradedAt |-> MemberOf(text[i], "gradedAt").s]]

ToSet(seq) == {seq[i] : i \in 1 .. Len(seq)}

-----------------------------------------------------------------------------
(* Oracle response texts.  A text is a sequence of lexical tokens: braces,   *)
(* colon, comma, minus sign, a run of white space, a double-quoted string, a *)
(* run of digits, a bare word.                                               *)

Tok(k, n, s) == [k |-> k, n |-> n, s |-> s]
LB == Tok("lbrace", 0, "")
RB == Tok("rbrace", 0, "")
COLON == Tok("colon", 0, "")
COMMA == Tok("comma", 0, "")
MINUS == Tok("minus", 0, "")
WS == Tok("ws", 0, "")
Q(s) == Tok("str", 0, s)
D(n) == Tok("num", n, "")
W(s) == Tok("word", 0, s)

NoWs(toks) == SelectSeq(toks, LAMBDA t : t.k # "ws")

\* a JSON value starting at token i: a number, a negative number, a string,
\* or one of the literals null, true, false
ValueAt(t, i) ==
    IF i > Len(t) THEN [ok |-> FALSE, v |-> JsUndefined, next |-> i]
    ELSE IF t[i].k = "num" THEN [ok |-> TRUE, v |-> JsNum(t[i].n), next |-> i + 1]
    ELSE IF t[i].k = "minus" /\ i + 1 <= Len(t) /\ t[i + 1].k = "num"
         THEN [ok |-> TRUE, v |-> JsNum(0 - t[i + 1].n), next |-> i + 2]
    ELSE IF t[i].k = "str" THEN [ok |-> TRUE, v |-> JsStr(t[i].s), next |-> i + 1]
    ELSE IF t[i] = W("null") THEN [ok |-> TRUE, v |-> JsNull, next |-> i + 1]
    ELSE IF t[i] = W("true") THEN [ok |-> TRUE, v |-> JsBool(TRUE), next |-> i + 1]
    ELSE IF t[i] = W("false") THEN [ok |-> TRUE, v |-> JsBool(FALSE), next |-> i + 1]
    ELSE [ok |-> FALSE, v |-> JsUndefined, next |-> i]

JsonFail == [ok |-> FALSE, kind |-> "", members |-> <<>>, prim |-> JsUndefined]

\* the members of an object, from the key at token i to the closing brace,
\* which must be the last token
RECURSIVE ParseMembers(_, _, _)
ParseMembers(t, i, acc) ==
    IF i + 1 > Len(t) \/ t[i].k # "str" \/ t[i + 1].k # "colon" THEN JsonFail
    ELSE LET val == ValueAt(t, i + 2)
             acc2 == Append(acc, [key |-> t[i].s, val |-> val.v])
         IN  IF ~val.ok \/ val.next > Len(t) THEN JsonFail
             ELSE IF t[val.next].k = "rbrace"
                  THEN IF val.next = Len(t)
                       THEN [ok |-> TRUE, kind |-> "object", members |-> acc2,
                             prim |-> JsUndefined]
                       ELSE JsonFail
             ELSE IF t[val.next].k = "comma" THEN ParseMembers(t, val.next + 1, acc2)
             ELSE JsonFail

\* JSON.parse(text): an object of scalar members, or a scalar; ok = FALSE is
\* the SyntaxError
JsonParse(toks) ==
    LET t == NoWs(toks)
    IN  IF Len(t) = 0 THEN JsonFail
        ELSE IF t[1].k = "lbrace"
             THEN IF Len(t) = 2 /\ t[2].k = "rbrace"
                  THEN [ok |-> TRUE, kind |-> "object", members |-> <<>>,
                        prim |-> JsUndefined]
                  ELSE ParseMembers(t, 2, <<>>)
        ELSE LET val == ValueAt(t, 1)
             IN  IF val.ok /\ val.next = Len(t) + 1
                 THEN [ok |-> TRUE, kind |-> IF val.v.t = "null" THEN "null" ELSE "prim",
                       members |-> <<>>, prim |-> val.v]
                 ELSE JsonFail

\* data.<key> of a parsed value that is not null: the last member with that
\* key, undefined when there is none or data is a primitive
GetField(data, key) ==
    LET hits == {i \in 1 .. Len(data.members) : data.members[i].key = key}
    IN  IF hits = {} THEN JsUndefined
        ELSE data.members[CHOOSE i \in hits : \A j \in hits : j <= i].val

\* \s* from token i: the first token at or after i that is not white space
SkipWs(t, i) == IF i <= Len(t) /\ t[i].k = "ws" THEN i + 1 ELSE i

NoMatch == [matched |-> FALSE, grade |-> 0, comment |-> ""]

\* /"grade":\s*([\d.]+),\s*"comment":\s*"(.*?)"/ tried at token i
GradeRegexAt(t, i) ==
    IF i + 1 > Len(t) \/ t[i] # Q("grade") \/ t[i + 1].k # "colon" THEN NoMatch
    ELSE LET j == SkipWs(t, i + 2)
         IN  IF j + 1 > Len(t) \/ t[j].k # "num" \/ t[j + 1].k # "comma" THEN NoMatch
             ELSE LET k == SkipWs(t, j + 2)
                  IN  IF k + 1 > Len(t) \/ t[k] # Q("comment") \/ t[k + 1].k # "colon"
                      THEN NoMatch
                      ELSE LET m == SkipWs(t, k + 2)
                           IN  IF m > Len(t) \/ t[m].k # "str" THEN NoMatch
                               ELSE [matched |-> TRUE, grade |-> t[j].n,
                                     comment |-> t[m].s]

\* response.match(regex): the leftmost match
GradeRegex(t) ==
    LET starts == {i \in 1 .. Len(t) : GradeRegexAt(t, i).matched}
    IN  IF starts = {} THEN NoMatch
        ELSE GradeRegexAt(t, CHOOSE i \in starts : \A j \in starts : i <= j)

-----------------------------------------------------------------------------
(* GradingService: parseResponse and gradeSubmission                         *)

GradingResult(studentId, questionId, grade, comment, gradedAt) ==
    [studentId |-> studentId, questionId |-> questionId, grade |-> grade,
     comment |-> comment, gradedAt |-> gradedAt]

Threw(msg) == [threw |-> TRUE, msg |-> msg, grade |-> JsUndefined, comment |-> ""]

\* the try block of parseResponse: JSON.parse, the format validation, the
\* numeric coercion of grade and comment.toString()
StructuredParse(toks) ==
    LET data == JsonParse(toks)
    IN  IF ~data.ok THEN Threw("Unexpected token in JSON")
        ELSE IF data.kind = "null" THEN Threw("Cannot read properties of null")
        ELSE LET g == GetField(data, "grade")
                 c == GetField(data, "comment")
                 grade == IF g.t = "str" THEN ParseFloat(g.s) ELSE g
             IN  IF g.t = "undefined" \/ c.t = "undefined"
                 THEN Threw("Invalid response format")
                 ELSE IF c.t = "null" THEN Threw("Cannot read properties of null")
                 ELSE [threw |-> FALSE, msg |-> "",
                       grade |-> IF IsNaN(grade) THEN JsNum(0) ELSE grade,
                       comment |-> ToStringJs(c)]

ParseErrorPrefix == "> Error parsing grading response: "

\* parseResponse without its pattern step
ParseResponseNoPattern(toks, studentId, questionId, now) ==
    LET sp == StructuredParse(toks)
    IN  IF ~sp.threw
        THEN GradingResult(studentId, questionId, sp.grade, sp.comment, now)
        ELSE GradingResult(studentId, questionId, JsNum(0),
                           ParseErrorPrefix \o sp.msg, now)

\* parseResponse with the pattern step tried before the structured parse
ParseResponsePatternFirst(toks, studentId, questionId, now) ==
    LET m == GradeRegex(toks)
    IN  IF m.matched
        THEN GradingResult(studentId, questionId, JsNum(m.grade), m.comment, now)
        ELSE ParseResponseNoPattern(toks, studentId, questionId, now)

\* parseResponse(response, studentId, questionId) for a string response
ParseResponse(toks, studentId, questionId, now) ==
    LET sp == StructuredParse(toks)
        m == GradeRegex(toks)
    IN  IF ~sp.threw
        THEN GradingResult(studentId, questionId, sp.grade, sp.comment, now)
        ELSE IF m.matched
             THEN GradingResult(studentId, questionId, JsNum(m.grade), m.comment, now)
             ELSE GradingResult(studentId, questionId, JsNum(0),
                                ParseErrorPrefix \o sp.msg, now)

\* question.maxPoint || 100
MaxPointOf(question) ==
    IF question.maxPoint.t = "num" /\ question.maxPoint.n # 0
    THEN question.maxPoint.n ELSE 100

\* LLMService.getResponse: the API call rejects, or the completion has no
\* content, or its content is returned
GetResponse(outcome) ==
    CASE outcome.kind = "throw" -> [threw |-> TRUE, msg |-> "Connection error.", text |-> <<>>]
      [] outcome.kind = "empty" -> [threw |-> TRUE, msg |-> "Empty response from LLM", text |-> <<>>]
      [] OTHER -> [threw |-> FALSE, msg |-> "", text |-> outcome.text]

GradeErrorPrefix == "> Error grading submission: "

\* GradingService.gradeSubmission(submission, content, question): what the
\* call returns, and whether it raises
GradeSubmission(submission, outcome, question, now) ==
    LET r == GetResponse(outcome)
    IN  IF r.threw \/ Len(r.text) = 0
        THEN [threw |-> FALSE,
              result |-> GradingResult(submission.studentId, submission.questionId,
                             JsNum(0),
                             GradeErrorPrefix \o
                                 (IF r.threw THEN r.msg ELSE "Empty response from LLM"),
                             now)]
        ELSE [threw |-> FALSE,
              result |-> ParseResponse(r.text, submission.studentId,
                                       submission.questionId, now)]

-----------------------------------------------------------------------------
(* llm-api: the engine's oracle call                                         *)

\* a bare word equal to w under the regex flag i
IsWordCI(t, w) ==
    /\ t.k = "word"
    /\ \/ t.s = w
       \/ w = "SCORE" /\ t.s \in {"Score", "score"}
       \/ w = "FEEDBACK" /\ t.s \in {"Feedback", "feedback"}
       \/ w = "EXPLANATION" /\ t.s \in {"Explanation", "explanation"}

\* the token positions where <w>: starts
LabelStarts(t, w) ==
    {i \in 1 .. Len(t) : IsWordCI(t[i], w) /\ i + 1 <= Len(t) /\ t[i + 1].k = "colon"}

Least(S) == CHOOSE i \in S : \A j \in S : i <= j

\* response.match(/SCORE:\s*(\d+(\.\d+)?)/i): the leftmost SCORE: that a
\* number follows; score = scoreMatch ? parseFloat(scoreMatch[1]) : 0
ScoreOf(t) ==
    LET hits == {i \in LabelStarts(t, "SCORE") :
                    LET j == SkipWs(t, i + 2) IN j <= Len(t) /\ t[j].k = "num"}
    IN  IF hits = {} THEN 0 ELSE t[SkipWs(t, Least(hits) + 2)].n

\* string.trim() of a token sequence
Trim(t) ==
    LET a == IF Len(t) > 0 /\ t[1].k = "ws" THEN 2 ELSE 1
        b == IF Len(t) > 0 /\ t[Len(t)].k = "ws" THEN Len(t) - 1 ELSE Len(t)
    IN  IF a > b THEN <<>> ELSE SubSeq(t, a, b)

\* response.match(/FEEDBACK:\s*([\s\S]*?)(?=EXPLANATION:|$)/i), trimmed: the
\* text from the first FEEDBACK: to the next EXPLANATION: or to the end
FeedbackOf(t) ==
    LET starts == LabelStarts(t, "FEEDBACK")
    IN  IF starts = {} THEN <<>>
        ELSE LET from == Least(starts) + 2
                 ends == {i \in LabelStarts(t, "EXPLANATION") : i >= from}
                 to == IF ends = {} THEN Len(t) ELSE Least(ends) - 1
             IN  IF from > to THEN <<>> ELSE Trim(SubSeq(t, from, to))

Min(a, b) == IF a < b THEN a ELSE b
Max(a, b) == IF a < b THEN b ELSE a

\* parseGradingResponse(response, maxPoints)
ParseGradingResponse(t, maxPoints) ==
    [score |-> Min(Max(0, ScoreOf(t)), maxPoints), feedback |-> FeedbackOf(t)]

ApiErrorFeedback == <<W("Error in grading process. Please review manually.")>>

\* llm-api gradeSubmission(request): the completion call rejects, or the
\* content is missing (|| ''), or the content is parsed
LlmApiGradeSubmission(outcome, maxPoints) ==
    CASE outcome.kind = "throw" ->
            [threw |-> FALSE, score |-> 0, feedback |-> ApiErrorFeedback]
      [] outcome.kind = "empty" ->
            [threw |-> FALSE] @@ ParseGradingResponse(<<>>, maxPoints)
      [] OTHER ->
            [threw |-> FALSE] @@ ParseGradingResponse(outcome.text, maxPoints)

-----------------------------------------------------------------------------
(* ResultStorage *)

\* addResult(result): this.results.push(result)
AddResultOp(rs, r) == Append(rs, r)

\* resultExists(studentId, questionId)
ResultExists(rs, studentId, questionId) ==
    \E i \in 1 .. Len(rs) : rs[i].studentId = studentId /\ rs[i].questionId = questionId

\* loadResults(): the store after the call; a missing file leaves it as it is
LoadResultsOp(rs, file) == IF file.exists THEN ParseLedger(file.text) ELSE rs

\* saveResults(): the file after the call
SaveResultsOp(rs) == [exists |-> TRUE, text |-> Stringify(rs)]

-----------------------------------------------------------------------------
(* Inputs of the model *)

Students == {"S1", "S2"}
Questions == {"Q1", "Q2"}
Times == {"t1", "t2"}

\* {"grade": 7, "comment": "good"}
RespJson == <<LB, Q("grade"), COLON, WS, D(7), COMMA, WS, Q("comment"), COLON, WS,
              Q("good"), RB>>
\* grade: 7 comment: "good"
RespBare == <<W("grade"), COLON, WS, D(7), WS, W("comment"), COLON, WS, Q("good")>>
\* "grade": 7, "comment": "good"
RespPattern == <<Q("grade"), COLON, WS, D(7), COMMA, WS, Q("comment"), COLON, WS,
                 Q("good")>>
\* Result: {"grade": 7, "comment": "good"}
RespWrapped == <<W("Result"), COLON, WS>> \o RespJson
\* {"grade": 150, "comment": "great"}
RespOver == <<LB, Q("grade"), COLON, WS, D(150), COMMA, WS, Q("comment"), COLON, WS,
              Q("great"), RB>>
\* {"grade": -5, "comment": "bad"}
RespNegative == <<LB, Q("grade"), COLON, WS, MINUS, D(5), COMMA, WS, Q("comment"),
                  COLON, WS, Q("bad"), RB>>
\* {"grade": "8", "comment": "ok"}
RespStringGrade == <<LB, Q("grade"), COLON, WS, Q("8"), COMMA, WS, Q("comment"), COLON,
                     WS, Q("ok"), RB>>
\* {"grade": "Infinity", "comment": "ok"}
RespInfinity == <<LB, Q("grade"), COLON, WS, Q("Infinity"), COMMA, WS, Q("comment"),
                  COLON, WS, Q("ok"), RB>>
\* {"grade": "full", "comment": "ok"}
RespWordGrade == <<LB, Q("grade"), COLON, WS, Q("full"), COMMA, WS, Q("comment"), COLON,
                   WS, Q("ok"), RB>>
\* {"comment": "ok"}
RespNoGrade == <<LB, Q("comment"), COLON, WS, Q("ok"), RB>>
\* {"grade": 5, "comment": null}
RespNullComment == <<LB, Q("grade"), COLON, WS, D(5), COMMA, WS, Q("comment"), COLON, WS,
                     W("null"), RB>>
\* {"comment": "good", "grade": 7, "comment": "good", "grade": 9}
RespDuplicate == <<LB, Q("comment"), COLON, WS, Q("good"), COMMA, WS, Q("grade"), COLON,
                   WS, D(7), COMMA, WS, Q("comment"), COLON, WS, Q("good"), COMMA, WS,
                   Q("grade"), COLON, WS, D(9), RB>>
\* sorry
RespProse == <<W("sorry")>>
\* null
RespJsonNull == <<W("null")>>

Responses ==
    {RespJson, RespBare, RespPattern, RespWrapped, RespOver, RespNegative,
     RespStringGrade, RespInfinity, RespWordGrade, RespNoGrade, RespNullComment,
     RespDuplicate, RespProse, RespJsonNull}

\* what the oracle call may do
Outcomes ==
    {[kind |-> "throw", text |-> <<>>], [kind |-> "empty", text |-> <<>>]}
    \cup {[kind |-> "text", text |-> r] : r \in Responses}

Submission(studentId, questionId) == [studentId |-> studentId, questionId |-> questionId]

\* the records the drivers add to the store: results of gradeSubmission
StoreInputs ==
    {GradeSubmission(Submission(s, "Q1"), [kind |-> "text", text |-> r],
                     [questionId |-> "Q1", maxPoint |-> JsNum(10)], now).result :
        s \in Students, r \in {RespJson, RespInfinity}, now \in Times}

\* the texts the engine's oracle answers with
\* SCORE: 7 FEEDBACK: good EXPLANATION: fine
ERespFull == <<W("SCORE"), COLON, WS, D(7), WS, W("FEEDBACK"), COLON, WS, W("good"), WS,
               W("EXPLANATION"), COLON, WS, W("fine")>>
\* score: 150 feedback: great
ERespOver == <<W("score"), COLON, WS, D(150), WS, W("feedback"), COLON, WS, W("great")>>
\* FEEDBACK: good
ERespNoScore == <<W("FEEDBACK"), COLON, WS, W("good")>>
\* sorry
ERespProse == <<W("sorry")>>

EngineOutcomes ==
    {[kind |-> "throw", text |-> <<>>], [kind |-> "empty", text |-> <<>>]}
    \cup {[kind |-> "text", text |-> r] :
             r \in {ERespFull, ERespOver, ERespNoScore, ERespProse}}

\* the loaded rubrics: Q1 has #MaxPoint 10, Q2 has no #MaxPoint section
QuestionOf(q) ==
    [questionId |-> q, maxPoint |-> IF q = "Q1" THEN JsNum(10) ELSE JsUndefined]

NoResult == GradingResult("", "", JsUndefined, "", "")

OracleIdle ==
    /\ svcCall = [done |-> FALSE, outcome |-> [kind |-> "", text |-> <<>>],
                  maxPoint |-> 0, threw |-> FALSE, result |-> NoResult]
    /\ apiCall = [done |-> FALSE, outcome |-> [kind |-> "", text |-> <<>>],
                  maxPoints |-> 0, threw |-> FALSE, score |-> 0, feedback |-> <<>>]

\* no batch job: nothing created at the service, no timer armed
NoJob ==
    [status |-> "none", output_file_id |-> FALSE, error_file_id |-> FALSE,
     observed |-> "none", polling |-> FALSE, polls |-> 0, fetched |-> FALSE,
     errorFetched |-> FALSE, error |-> "",
     abort |-> FALSE]

BatchIdle ==
    /\ batch_items = <<>>
    /\ batchStatus = "idle"
    /\ job = NoJob
    /\ outputFile = <<>>
    /\ batchResults = <<>>
    /\ artifacts = [written |-> <<>>, added |-> <<>>]

\* the compute driver before main runs
\* the entry of a student the tracker has no status for
Unknown == [known |-> FALSE, hasSubmission |-> FALSE, hasGraded |-> FALSE]

SearchIdle ==
    [pc |-> "idle", buttons |-> <<>>, strategy |-> 0, clicked |-> 0, error |-> FALSE]

ScanIdle ==
    [pc |-> "idle", assignmentType |-> "", exists |-> FALSE, files |-> <<>>,
     todo |-> <<>>, stuIdSubFile |-> <<>>, submissions |-> <<>>]

\* no rubric loaded
RequestIdle == [pc |-> "idle", client |-> "", template |-> <<>>, maxPoints |-> 0, rubric |-> <<>>]

DriverIdle ==
    /\ driver = [pc |-> "idle", kind |-> "", listed |-> <<>>, todo |-> <<>>,
                 batch |-> <<>>, loaded |-> <<>>, invoked |-> {}, processedCount |-> 0,
                 loadFailed |-> FALSE, saveFailed |-> FALSE]
    /\ scan = ScanIdle
    /\ search = SearchIdle
    /\ responses = [inflight |-> <<>>, arrived |-> [s \in Students |-> Unknown]]
    /\ request = RequestIdle

\* the configurations of the engine: a quiz with several questions, or a
\* single-question assignment graded by points or as complete/incomplete
EngineConfigs ==
    {[assignmentType |-> "group", binaryScore |-> FALSE],
     [assignmentType |-> "single", binaryScore |-> FALSE],
     [assignmentType |-> "single", binaryScore |-> TRUE]}

CurIdle ==
    [student |-> "", route |-> "", queue0 |-> <<>>, attempted |-> {}, qfailed |-> {},
     finalized |-> FALSE]

\* the engine before processAssignment is called
EngineStopped ==
    /\ evaluatedGrades = <<>>
    /\ roster = <<>>
    /\ idx = 0
    /\ epc = "init"
    /\ tracker = [s \in Students |-> Unknown]
    /\ queue = <<>>
    /\ cur = CurIdle
    /\ ended = [s \in Students |-> "no"]
    /\ actor = ""
    /\ lastOps = <<>>

EngineIdle == config = [assignmentType |-> "group", binaryScore |-> FALSE] /\ EngineStopped

-----------------------------------------------------------------------------
(* The ledger: addResult, saveResults, loadResults *)

StoreIdle ==
    /\ results = <<>>
    /\ ledger = [exists |-> FALSE, text |-> <<>>]
    /\ savedFrom = <<>>
    /\ fresh = <<>>
    /\ freshLoaded = FALSE

\* resultStorage.addResult(result)
AddResult(r) ==
    /\ Len(results) < MaxResults
    /\ results' = AddResultOp(results, r)
    /\ UNCHANGED <<ledger, savedFrom, fresh, freshLoaded, oracleVars, batchVars, driverVars, engineVars>>

\* resultStorage.saveResults()
SaveResults ==
    /\ ledger' = SaveResultsOp(results)
    /\ savedFrom' = results
    /\ fresh' = <<>>
    /\ freshLoaded' = FALSE
    /\ UNCHANGED <<results, oracleVars, batchVars, driverVars, engineVars>>

\* resultStorage.loadResults() on the driver's store
LoadResults ==
    /\ results' = LoadResultsOp(results, ledger)
    /\ UNCHANGED <<ledger, savedFrom, fresh, freshLoaded, oracleVars, batchVars, driverVars, engineVars>>

\* new ResultStorage(dir, assignmentId).loadResults() after a save
FreshLoad ==
    /\ ledger.exists
    /\ ~freshLoaded
    /\ fresh' = LoadResultsOp(<<>>, ledger)
    /\ freshLoaded' = TRUE
    /\ UNCHANGED <<results, ledger, savedFrom, oracleVars, batchVars, driverVars, engineVars>>

StoreNext ==
    \/ \E r \in StoreInputs : AddResult(r)
    \/ SaveResults
    \/ LoadResults
    \/ FreshLoad

StoreInit == StoreIdle /\ OracleIdle /\ BatchIdle /\ EngineIdle /\ DriverIdle

SpecStore == StoreInit /\ [][StoreNext]_vars

-----------------------------------------------------------------------------
(* C1: after any sequence of addResult calls the store holds at most one    *)
(* record per (studentId, questionId).                                       *)
C1_OneRecordPerKey ==
    \A i, j \in 1 .. Len(results) :
        (results[i].studentId = results[j].studentId
         /\ results[i].questionId = results[j].questionId) => i = j

(* C2: saveResults followed by loadResults on a fresh ResultStorage          *)
(* reproduces the same set of records.                                       *)
C2_RoundTrip == freshLoaded => ToSet(fresh) = ToSet(savedFrom)

-----------------------------------------------------------------------------
(* The synchronous oracle client: the compute driver grading one submission, *)
(* and the engine's oracle call                                              *)

\* one iteration of the driver's loop: skip a submission already in the
\* store, gradeSubmission, addResult; a raise is caught and counted
SyncGrade(s, q, outcome) ==
    /\ Len(results) < MaxGraded
    /\ ~ResultExists(results, s, q)
    /\ LET call == GradeSubmission(Submission(s, q), outcome, QuestionOf(q), "t1")
       IN  /\ svcCall' = [done |-> TRUE, outcome |-> outcome,
                          maxPoint |-> MaxPointOf(QuestionOf(q)),
                          threw |-> call.threw, result |-> call.result]
           /\ results' = IF call.threw THEN results
                         ELSE AddResultOp(results, call.result)
    /\ UNCHANGED <<ledger, savedFrom, fresh, freshLoaded, apiCall, batchVars, driverVars, engineVars>>

\* gradeSubmission(request) of llm-api, as the engine calls it for a question
\* worth maxPoints
OracleCall(outcome, maxPoints) ==
    /\ LET call == LlmApiGradeSubmission(outcome, maxPoints)
       IN  apiCall' = [done |-> TRUE, outcome |-> outcome, maxPoints |-> maxPoints,
                       threw |-> call.threw, score |-> call.score,
                       feedback |-> call.feedback]
    /\ UNCHANGED <<storeVars, svcCall, batchVars, driverVars, engineVars>>

SyncNext ==
    \/ \E s \in Students, q \in Questions, o \in Outcomes : SyncGrade(s, q, o)
    \/ \E o \in EngineOutcomes, m \in {1, 10} : OracleCall(o, m)

SpecSync == StoreInit /\ [][SyncNext]_vars

\* the response is valid structured data carrying a grade and a comment
CarriesBoth(t) ==
    LET data == JsonParse(t)
    IN  /\ data.ok
        /\ data.kind = "object"
        /\ GetField(data, "grade").t # "undefined"
        /\ GetField(data, "comment").t \notin {"undefined", "null"}

\* the oracle call failed: transport failure, empty response, or a response
\* that neither step of parseResponse can parse
SvcFailed(o) ==
    \/ o.kind \in {"throw", "empty"}
    \/ o.kind = "text" /\ ~CarriesBoth(o.text) /\ ~GradeRegex(o.text).matched

\* the same for the engine's call: no SCORE: <number> in the response
ApiFailed(o) ==
    \/ o.kind \in {"throw", "empty"}
    \/ o.kind = "text" /\ \A i \in LabelStarts(o.text, "SCORE") :
                             LET j == SkipWs(o.text, i + 2)
                             IN  j > Len(o.text) \/ o.text[j].k # "num"

(* C3: every result GradingService produces and the driver adds to the     *)
(* store has 0 <= grade <= maxPoint of its question.                        *)
C3_GradeInRange ==
    \A i \in 1 .. Len(results) :
        /\ results[i].grade.t = "num"
        /\ 0 <= results[i].grade.n
        /\ results[i].grade.n <= MaxPointOf(QuestionOf(results[i].questionId))

(* C6: neither oracle call raises; on a transport failure, an empty         *)
(* response or an unparsable response it returns score 0 with a non-empty,  *)
(* explanatory feedback.                                                     *)
C6_OracleDegrades ==
    /\ svcCall.done =>
          /\ ~svcCall.threw
          /\ SvcFailed(svcCall.outcome) =>
                svcCall.result.grade = JsNum(0) /\ svcCall.result.comment # ""
    /\ apiCall.done =>
          /\ ~apiCall.threw
          /\ ApiFailed(apiCall.outcome) =>
                apiCall.score = 0 /\ apiCall.feedback # <<>>

C8_BareFormParsed ==
    (svcCall.done /\ svcCall.outcome.kind = "text" /\ svcCall.outcome.text = RespBare)
        => svcCall.result.grade = JsNum(7) /\ svcCall.result.comment = "good"

(* C8 amended: the response  "grade": 7, "comment": "good"  (keys quoted,   *)
(* a comma between the fields, not valid structured data) is parsed by the  *)
(* pattern into grade 7 and comment "good"; the unquoted form matches no    *)
(* pattern and yields the grade-0 parse-failure result.                      *)
C8_QuotedFormParsed ==
    (svcCall.done /\ svcCall.outcome.kind = "text") =>
        /\ svcCall.outcome.text = RespPattern =>
              /\ ~JsonParse(RespPattern).ok
              /\ svcCall.result.grade = JsNum(7)
              /\ svcCall.result.comment = "good"
        /\ svcCall.outcome.text = RespBare =>
              /\ ~JsonParse(RespBare).ok
              /\ svcCall.result.grade = JsNum(0)
              /\ svcCall.result.comment = ParseErrorPrefix \o "Unexpected token in JSON"

C8_Witness ==
    /\ svcCall.done
    /\ svcCall.outcome.kind = "text"
    /\ svcCall.outcome.text = RespPattern
    /\ svcCall.result.grade = JsNum(7)
    /\ svcCall.result.comment = "good"

-----------------------------------------------------------------------------
(* The batch oracle client: addBatchItem, batchGradingResult and             *)
(* parseBatchResponse.  A correlation token is the sequence of its pieces:   *)
(* the ids and the separator "_".                                            *)

MaxBatch == 2

\* the polls before the timer fires: 24 * 60 in the code, one a minute for
\* 24 hours
PollCeiling == 2

BatchStudents == {"S1", "S2", "S3"}

\* the submissions found on disk: one per student
BatchQuestionOf(s) == IF s = "S2" THEN "Q2" ELSE "Q1"

\* a token whose two ids are in the other order
CustomIdSwapped(studentId, questionId) == <<questionId, "_", studentId>>

\* `${submission.studentId}_${submission.questionId}`
CustomId(studentId, questionId) == <<studentId, "_", questionId>>

\* the pieces of a segment, joined into one string
RECURSIVE Join(_)
Join(seg) == IF seg = <<>> THEN "" ELSE Head(seg) \o Join(Tail(seg))

\* custom_id.split('_'): the segments between the separators
RECURSIVE SplitFrom(_, _, _)
SplitFrom(chars, seg, acc) ==
    IF chars = <<>> THEN Append(acc, Join(seg))
    ELSE IF Head(chars) = "_" THEN SplitFrom(Tail(chars), <<>>, Append(acc, Join(seg)))
    ELSE SplitFrom(Tail(chars), Append(seg, Head(chars)), acc)

Split(chars) == SplitFrom(chars, <<>>, <<>>)

\* parseResponse(response, studentId, questionId) for any content of a batch
\* line: a null content raises out of the catch block, at response.match
ParseResponseAny(content, studentId, questionId, now) ==
    IF content.isNull
    THEN [threw |-> TRUE, result |-> NoResult]
    ELSE [threw |-> FALSE, result |-> ParseResponse(content.text, studentId, questionId, now)]

\* one iteration of the loop of parseBatchResponse: whether the line yields a
\* result, and whether it was logged as an error
ParseBatchLine(line, now) ==
    IF line.shape \in {"text", "short"}
    THEN [emitted |-> FALSE, logged |-> FALSE, result |-> NoResult]
    ELSE IF line.shape = "truncated" \/ ~line.custom_id.present \/ ~line.hasResponse
    THEN [emitted |-> FALSE, logged |-> TRUE, result |-> NoResult]
    ELSE LET parts == Split(line.custom_id.chars)
             studentId == parts[1]
             questionId == IF Len(parts) >= 2 THEN parts[2] ELSE UndefinedId
             r == ParseResponseAny(line.content, studentId, questionId, now)
         IN  IF r.threw
             THEN [emitted |-> FALSE, logged |-> TRUE, result |-> NoResult]
             ELSE [emitted |-> TRUE, logged |-> FALSE, result |-> r.result]

\* parseBatchResponse(filePath): the results of the lines, in file order
RECURSIVE ParseBatchResponse(_, _)
ParseBatchResponse(lines, now) ==
    IF lines = <<>> THEN <<>>
    ELSE LET r == ParseBatchLine(Head(lines), now)
         IN  (IF r.emitted THEN <<r.result>> ELSE <<>>)
                 \o ParseBatchResponse(Tail(lines), now)

\* the lines the batch service may write for a request
LineForms ==
    {"json", "prose", "text", "short", "truncated", "noid", "noresponse",
     "nullcontent", "nounderscore"}

\* the output line for request number origin, in the given form
\*   json          {"custom_id":"S1_Q1","response":{"body":{"choices":[{"message":
\*                 {"content":"{\"grade\": 7, \"comment\": \"good\"}"}}]}}}
\*   prose         the same with the content  sorry
\*   text          a line that does not start with a brace
\*   short         {}
\*   truncated     a line that starts with a brace and is cut before its end
\*   noid          the json line without custom_id
\*   noresponse    the json line with "response": null
\*   nullcontent   the json line with "content": null
\*   nounderscore  the json line with the custom_id "S1"
OutputLine(item, origin, form) ==
    [origin |-> origin,
     shape |-> IF form \in {"text", "short", "truncated"} THEN form ELSE "object",
     custom_id |-> [present |-> form # "noid",
                    chars |-> IF form = "nounderscore"
                              THEN SubSeq(item.custom_id, 1, 1)
                              ELSE item.custom_id],
     hasResponse |-> form # "noresponse",
     content |-> [isNull |-> form = "nullcontent",
                  text |-> IF form = "prose" THEN RespProse ELSE RespJson]]

\* the statuses at which the interval callback of batchProcess stops polling
TerminalStatuses == {"completed", "failed", "cancelled", "expired"}

\* errors?.object || 'No error details', of the batch getBatchResult
\* retrieved: the service attaches an error list to a failed batch only
ErrorReason(status) == IF status = "failed" THEN "list" ELSE "No error details"

\* the message of the Error getBatchResult throws
BatchFailedPrefix == "Batch task execute failed, error reason: "

\* the message of the Error the 24 hour timer rejects with
TimeoutMessage == "Batch processing timeout after 24 hours"

\* the prefix of the Error a failing poll rejects with
PollErrorPrefix == "Error checking batch status: "

\* the content of input_file.jsonl: the custom_id of the line of each item
InputLines(items) == [i \in 1 .. Len(items) |-> items[i].custom_id]

\* fs.promises.writeFile of input_file.jsonl in batchGradingResult: the lines
\* written, beside the requests added since the file was last written
WriteInputFile(a, items) ==
    [written |-> Append(a.written, [lines |-> InputLines(items), added |-> a.added]),
     added |-> <<>>]

\* grader.addBatchItem(submission, content, question), as batchApi calls it
\* for the next submission
AddBatchItem(s) ==
    /\ batchStatus = "idle"
    /\ Len(batch_items) < MaxBatch
    /\ \A i \in 1 .. Len(batch_items) : batch_items[i].studentId # s
    /\ batch_items' = Append(batch_items,
                             [custom_id |-> CustomId(s, BatchQuestionOf(s)),
                              studentId |-> s, questionId |-> BatchQuestionOf(s)])
    /\ artifacts' = [artifacts EXCEPT !.added = Append(@, CustomId(s, BatchQuestionOf(s)))]
    /\ UNCHANGED <<engineVars, storeVars, oracleVars, driverVars, batchStatus, job, outputFile,
                   batchResults>>

\* batchGradingResult(waitForCompletion) up to the await of checkStatus:
\* the job is created, the interval and the 24 hour timer are armed; without
\* waitForCompletion the call returns [] at once
SubmitBatch(waitForCompletion) ==
    /\ batchStatus = "idle"
    /\ batchStatus' = IF waitForCompletion THEN "in_progress" ELSE "detached"
    /\ job' = [job EXCEPT !.status = "in_progress", !.polling = waitForCompletion]
    /\ artifacts' = WriteInputFile(artifacts, batch_items)
    /\ UNCHANGED <<engineVars, storeVars, oracleVars, driverVars, batch_items, outputFile, batchResults>>

\* the batch service answers one of the requests
ServiceAnswer(i, form) ==
    /\ batchStatus = "in_progress"
    /\ job.status = "in_progress"
    /\ \A k \in 1 .. Len(outputFile) : outputFile[k].origin # i
    /\ outputFile' = Append(outputFile, OutputLine(batch_items[i], i, form))
    /\ UNCHANGED <<engineVars, storeVars, oracleVars, driverVars, batch_items, batchStatus, job,
                   batchResults, artifacts>>

\* the batch service reports the job completed; it has an output file when
\* at least one request was answered and an error file when at least one
\* was not
ServiceComplete ==
    /\ batchStatus = "in_progress"
    /\ job.status = "in_progress"
    /\ job' = [job EXCEPT !.status = "completed",
                          !.output_file_id = outputFile # <<>>,
                          !.error_file_id = Len(outputFile) < Len(batch_items)]
    /\ UNCHANGED <<engineVars, storeVars, oracleVars, driverVars, batch_items, batchStatus,
                   outputFile, batchResults, artifacts>>

\* the batch service ends the job as failed, cancelled or expired; a job
\* that failed validation answered nothing, the other two keep the answers
\* written so far in an output file
ServiceStops(status) ==
    /\ batchStatus = "in_progress"
    /\ job.status = "in_progress"
    /\ status = "failed" => outputFile = <<>>
    /\ job' = [job EXCEPT !.status = status,
                          !.output_file_id = outputFile # <<>>,
                          !.error_file_id = status = "expired" /\ Len(outputFile) < Len(batch_items)]
    /\ UNCHANGED <<engineVars, storeVars, oracleVars, driverVars, batch_items, batchStatus,
                   outputFile, batchResults, artifacts>>

\* the user asks to abort the wait; batchProcess takes no signal and has no
\* handler for it
UserAbort ==
    /\ batchStatus = "in_progress"
    /\ ~job.abort
    /\ job' = [job EXCEPT !.abort = TRUE]
    /\ UNCHANGED <<engineVars, storeVars, oracleVars, driverVars, batch_items, batchStatus,
                   outputFile, batchResults, artifacts>>

\* one run of the interval callback of batchProcess, a minute after the
\* last: batches.retrieve answers or raises
Poll(retrieve) ==
    /\ batchStatus = "in_progress"
    /\ job.polling
    /\ job.polls < PollCeiling
    /\ IF retrieve = "raise"
       THEN /\ job' = [job EXCEPT !.polls = @ + 1, !.polling = FALSE,
                                  !.error = PollErrorPrefix]
            /\ batchStatus' = "raised"
       ELSE IF job.status \in TerminalStatuses
       THEN /\ job' = [job EXCEPT !.polls = @ + 1, !.polling = FALSE,
                                  !.observed = job.status]
            /\ batchStatus' = "resolved"
       ELSE /\ job' = [job EXCEPT !.polls = @ + 1, !.observed = job.status]
            /\ UNCHANGED batchStatus
    /\ UNCHANGED <<engineVars, storeVars, oracleVars, driverVars, batch_items, outputFile, batchResults, artifacts>>

\* a timer that gives up the wait and lets batchProcess go on to the result
TimeoutResolves ==
    /\ batchStatus = "in_progress"
    /\ job.polls = PollCeiling
    /\ job' = [job EXCEPT !.polling = FALSE]
    /\ batchStatus' = "resolved"
    /\ UNCHANGED <<engineVars, storeVars, oracleVars, driverVars, batch_items, outputFile, batchResults, artifacts>>

\* the 24 hour timer of batchProcess fires while checkStatus is pending:
\* clearInterval, reject; batchGradingResult does not catch
Timeout ==
    /\ batchStatus = "in_progress"
    /\ job.polls = PollCeiling
    /\ job' = [job EXCEPT !.polling = FALSE, !.error = TimeoutMessage]
    /\ batchStatus' = "raised"
    /\ UNCHANGED <<engineVars, storeVars, oracleVars, driverVars, batch_items, outputFile, batchResults, artifacts>>

\* batchGradingResult after checkStatus resolved: llm.getBatchResult
\* retrieves the job, downloads the output file if the job has one and
\* returns its path; otherwise it downloads the error file if the job has
\* one and throws; the output file downloaded is parsed
BatchGradingResult ==
    /\ batchStatus = "resolved"
    /\ IF job.output_file_id
       THEN /\ job' = [job EXCEPT !.fetched = TRUE]
            /\ batchResults' = ParseBatchResponse(outputFile, "t1")
            /\ batchStatus' = "parsed"
       ELSE /\ job' = [job EXCEPT !.errorFetched = job.error_file_id,
                                  !.error = BatchFailedPrefix \o ErrorReason(job.status)]
            /\ batchStatus' = "raised"
            /\ UNCHANGED batchResults
    /\ UNCHANGED <<engineVars, storeVars, oracleVars, driverVars, batch_items, outputFile, artifacts>>

\* the requests one service may hold and the input files it may write
MaxItems == 3
MaxArtifacts == 2

\* the request of a submission, as addBatchItem pushes it
BatchItem(s) ==
    [custom_id |-> CustomId(s, BatchQuestionOf(s)), studentId |-> s,
     questionId |-> BatchQuestionOf(s)]

\* grader.addBatchItem on a service that may have submitted a batch before
AddItem(s) ==
    /\ batchStatus \in {"idle", "detached"}
    /\ Len(batch_items) < MaxItems
    /\ batch_items' = Append(batch_items, BatchItem(s))
    /\ artifacts' = [artifacts EXCEPT !.added = Append(@, BatchItem(s).custom_id)]
    /\ UNCHANGED <<engineVars, storeVars, oracleVars, driverVars, batchStatus, job, outputFile,
                   batchResults>>

\* grader.clearBatchItems()
ClearBatchItems ==
    /\ batchStatus \in {"idle", "detached"}
    /\ batch_items # <<>>
    /\ batch_items' = <<>>
    /\ artifacts' = [artifacts EXCEPT !.added = <<>>]
    /\ UNCHANGED <<engineVars, storeVars, oracleVars, driverVars, batchStatus, job, outputFile,
                   batchResults>>

\* grader.batchGradingResult(false): the input file is written, the job is
\* created and [] is returned without waiting
BatchGradingResultDetached ==
    /\ batchStatus \in {"idle", "detached"}
    /\ Len(artifacts.written) < MaxArtifacts
    /\ batchStatus' = "detached"
    /\ job' = [job EXCEPT !.status = "in_progress", !.polling = FALSE]
    /\ artifacts' = WriteInputFile(artifacts, batch_items)
    /\ UNCHANGED <<engineVars, storeVars, oracleVars, driverVars, batch_items, outputFile,
                   batchResults>>

InputNext ==
    \/ \E s \in BatchStudents : AddItem(s)
    \/ ClearBatchItems
    \/ BatchGradingResultDetached

\* calls of addBatchItem, clearBatchItems and batchGradingResult on one service
SpecInput == StoreInit /\ [][InputNext]_vars

BatchNext ==
    \/ \E s \in BatchStudents : AddBatchItem(s)
    \/ \E w \in BOOLEAN : SubmitBatch(w)
    \/ \E i \in 1 .. Len(batch_items), f \in LineForms : ServiceAnswer(i, f)
    \/ ServiceComplete
    \/ \E st \in TerminalStatuses \ {"completed"} : ServiceStops(st)
    \/ \E r \in {"ok", "raise"} : Poll(r)
    \/ Timeout
    \/ BatchGradingResult

SpecBatch == StoreInit /\ [][BatchNext]_vars

\* the batch operation with a user who may ask to abort the wait
AbortNext ==
    \/ \E s \in BatchStudents : AddBatchItem(s)
    \/ \E w \in BOOLEAN : SubmitBatch(w)
    \/ \E i \in 1 .. Len(batch_items), f \in {"json", "prose"} : ServiceAnswer(i, f)
    \/ ServiceComplete
    \/ \E st \in TerminalStatuses \ {"completed"} : ServiceStops(st)
    \/ UserAbort
    \/ \E r \in {"ok", "raise"} : Poll(r)
    \/ Timeout
    \/ BatchGradingResult

SpecAbort == StoreInit /\ [][AbortNext]_vars

\* a line is well formed: it parses, its token has a studentId and a
\* questionId, and it embeds a response text
WellFormed(line) ==
    /\ line.shape = "object"
    /\ line.custom_id.present
    /\ Len(Split(line.custom_id.chars)) = 2
    /\ line.hasResponse
    /\ ~line.content.isNull

(* C9: every well-formed output line yields exactly one result, carrying    *)
(* the studentId and the questionId of the request the line answers and the *)
(* grade and comment of the line's own response, wherever the line stands   *)
(* in the file and whenever its request was added.                          *)
C9_AttributedByToken ==
    batchStatus = "parsed" =>
        \A k \in 1 .. Len(outputFile) :
            WellFormed(outputFile[k]) =>
                LET line == outputFile[k]
                    req == batch_items[line.origin]
                    own == ParseResponse(line.content.text, req.studentId,
                                         req.questionId, "t1")
                    hits == {n \in 1 .. Len(batchResults) :
                                /\ batchResults[n].studentId = req.studentId
                                /\ batchResults[n].questionId = req.questionId}
                IN  /\ Cardinality(hits) = 1
                    /\ \A n \in hits : batchResults[n] = own

\* two requests answered in the other order, with different responses, and
\* both results attributed
C9_Witness ==
    /\ batchStatus = "parsed"
    /\ Len(outputFile) = 2
    /\ outputFile[1].origin = 2
    /\ outputFile[2].origin = 1
    /\ WellFormed(outputFile[1])
    /\ WellFormed(outputFile[2])
    /\ outputFile[1].content.text # outputFile[2].content.text
    /\ batch_items[1].questionId # batch_items[2].questionId
    /\ Len(batchResults) = 2
    /\ batchResults[1].studentId = batch_items[2].studentId
    /\ batchResults[2].studentId = batch_items[1].studentId

(* C10: a malformed output line emits no result: the results are exactly    *)
(* those of the well-formed lines.                                           *)
C10_MalformedSkipped ==
    batchStatus = "parsed" =>
        Len(batchResults) =
            Cardinality({k \in 1 .. Len(outputFile) : WellFormed(outputFile[k])})

\* the poll saw the job end without completing
PollSawFailure == job.observed \in TerminalStatuses \ {"completed"}

(* C11: when the poll sees the job failed, cancelled or expired, the batch   *)
(* operation raises with that status as the reason and returns no result;    *)
(* the output file is fetched and parsed only when the status seen is        *)
(* completed.                                                                *)
C11_OnlyCompletedYields ==
    /\ job.fetched => job.observed = "completed"
    /\ (PollSawFailure /\ batchStatus # "resolved") =>
           /\ batchStatus = "raised"
           /\ batchResults = <<>>
           /\ job.error = BatchFailedPrefix \o job.observed

\* the wait of batchProcess has reached the 24 hour ceiling with no terminal
\* status seen by a poll
AtCeiling == batchStatus = "in_progress" /\ job.polls = PollCeiling

\* batchGradingResult ended with the timeout error raised to its caller
TimedOut == batchStatus = "raised" /\ job.error = TimeoutMessage

(* C12: when the ceiling elapses with no terminal status seen, the wait ends *)
(* in no other way than the timeout error; once it has, the error is what    *)
(* batchGradingResult raised, polling has stopped and never resumes, no      *)
(* output file was or will be fetched, and no per-item result is returned.   *)
C12_TimeoutFails ==
    /\ [][(AtCeiling /\ batchStatus' # "in_progress") => TimedOut']_vars
    /\ [](job.error = TimeoutMessage =>
             /\ TimedOut
             /\ ~job.polling
             /\ ~job.fetched
             /\ batchResults = <<>>
             /\ job.observed \notin TerminalStatuses)
    /\ [][TimedOut => (TimedOut' /\ job'.polls = job.polls)]_vars

\* the timer fired on a job that had answers and that the service ended
\* before the ceiling
C12_Witness ==
    /\ TimedOut
    /\ job.polls = PollCeiling
    /\ outputFile # <<>>
    /\ job.status = "completed"
    /\ job.observed = "in_progress"

(* C13: the wait can be cancelled by the user: once the user has asked to    *)
(* abort, no further poll runs, the operation goes on to nothing else (no    *)
(* output file is fetched) and the status last seen is left as it is.        *)
C13_AbortStopsPolling ==
    [][job.abort => /\ job'.polls = job.polls
                    /\ job'.fetched = job.fetched
                    /\ job'.observed = job.observed]_vars

-----------------------------------------------------------------------------
(* The grade application engine: AssignmentProcessor.processAssignment, one  *)
(* action for each stretch of the student loop between two points where the  *)
(* grading surface may raise.                                                *)

MaxRoster == 2
MaxQueue == 2

\* config.assignmentId: the question id of a single-question assignment
AssignmentId == "A1"

EngineQuestions == {"Q1", "Q2", "Q3"}

\* the sequences of at most n distinct members of S
DistinctSeqs(S, n) ==
    {q \in UNION {[1 .. k -> S] : k \in 0 .. n} :
        \A i, j \in DOMAIN q : q[i] = q[j] => i = j}

\* the rosters the student menu may hold
Rosters == DistinctSeqs(Students, MaxRoster)

\* the links under #questions_needing_review
ReviewQueues == DistinctSeqs(EngineQuestions, MaxQueue)

\* a QuestionToReview as getQuestionsNeedingReview reads it from the page:
\* question Q1 is a file upload, the others are text questions; all are
\* worth 10 points
PageQuestion(q) == [id |-> q, maxPoints |-> 10, fileUpload |-> q = "Q1"]

\* the ledger files the engine may find: results of a quiz and of a
\* single-question assignment, among them a grade written as null
LedgerOnDisk ==
    <<GradingResult("S1", "Q1", JsNum(7), "good", "t1"),
      GradingResult("S2", "Q1", JsInf, "ok", "t1"),
      GradingResult("S1", "Q2", JsNum(5), "half", "t1"),
      GradingResult("S2", "Q3", JsNum(10), "all correct", "t1"),
      GradingResult("S1", AssignmentId, JsNum(7), "units missing, -3", "t1"),
      GradingResult("S2", AssignmentId, JsNum(10), "good", "t1")>>

\* a ledger of a single-question assignment with a grade of zero
LedgerWithZero ==
    <<GradingResult("S1", AssignmentId, JsNum(0), "nothing correct", "t1")>>

EngineLedgers ==
    {[exists |-> FALSE, text |-> <<>>], SaveResultsOp(LedgerOnDisk),
     SaveResultsOp(LedgerWithZero)}

\* the texts the engine writes: the source has them in Chinese
\* "reviewed" (U+5DF2 U+6279 U+9605), the comment of a question whose ledger
\* grade is the full mark and the feedback of finalizeGrading
ReviewedText == "reviewed"
\* "graded" (U+5DF2 U+8BC4 U+5206), the feedback of a single-question assignment
GradedText == "graded"
\* "assignment not submitted" (U+4F5C U+4E1A U+672A U+63D0 U+4EA4)
NotSubmittedText == "assignment not submitted"

\* one write on the grading surface; value is a string, text an oracle feedback
Write(op, target, value, text) == [op |-> op, target |-> target, value |-> value, text |-> text]

Raised == [raised |-> TRUE, ops |-> <<>>]
Done(ops) == [raised |-> FALSE, ops |-> ops]

\* a followed by b: b is not run when a raised, and what a wrote stays written
AndThen(a, b) ==
    IF a.raised THEN a ELSE [raised |-> b.raised, ops |-> a.ops \o b.ops]

\* what the surface and the oracle do while one question is processed
BaseInput ==
    [fail |-> "none", answer |-> "text", file |-> "previewable", field |-> "standard",
     oracle |-> [kind |-> "text", text |-> ERespFull]]

QuestionInputs ==
    {BaseInput}
    \cup {[BaseInput EXCEPT !.fail = f] : f \in {"early", "grade", "comment"}}
    \cup {[BaseInput EXCEPT !.answer = a] : a \in {"empty", "unreadable"}}
    \cup {[BaseInput EXCEPT !.file = f] : f \in {"nolink", "unpreviewable", "extractfails"}}
    \cup {[BaseInput EXCEPT !.field = f] : f \in {"dropdown", "both", "none"}}
    \cup {[BaseInput EXCEPT !.oracle = o] :
             o \in {[kind |-> "throw", text |-> <<>>], [kind |-> "text", text |-> ERespOver]}}

\* grade > 0
Positive(grade) == (grade.t = "num" /\ grade.n > 0) \/ grade.t = "inf"

\* !grade
Falsy(grade) ==
    \/ grade.t \in {"null", "undefined", "nan"}
    \/ grade.t = "num" /\ grade.n = 0
    \/ grade.t = "str" /\ grade.s = ""

\* setQuestionGrade, had it looked for the dropdown first
SetQuestionGradeDropdownFirst(questionId, grade, inp) ==
    IF inp.field \in {"dropdown", "both"}
    THEN IF inp.fail = "grade" THEN Raised
         ELSE Done(<<Write("select", questionId,
                           IF Positive(grade) THEN "complete" ELSE "incomplete", <<>>)>>)
    ELSE IF inp.field = "standard"
    THEN IF inp.fail = "grade" \/ grade.t \in {"null", "undefined"} THEN Raised
         ELSE Done(<<Write("fill_grade", questionId, ToStringJs(grade), <<>>)>>)
    ELSE Done(<<>>)

\* setQuestionGrade(frame, questionId, grade): the page has the standard
\* score field, the dropdown, both or none
SetQuestionGrade(questionId, grade, inp) ==
    IF inp.field \in {"standard", "both"}
    THEN IF inp.fail = "grade" \/ grade.t \in {"null", "undefined"} THEN Raised
         ELSE Done(<<Write("fill_grade", questionId, ToStringJs(grade), <<>>)>>)
    ELSE IF inp.field = "dropdown"
    THEN IF inp.fail = "grade" THEN Raised
         ELSE Done(<<Write("select", questionId,
                           IF Positive(grade) THEN "complete" ELSE "incomplete", <<>>)>>)
    ELSE Done(<<>>)

\* setQuestionComment(frame, questionId, comment)
SetQuestionComment(questionId, comment, text, inp) ==
    IF inp.fail = "comment" THEN Raised
    ELSE Done(<<Write("fill_comment", questionId, comment, text)>>)

\* the oracle call of a question and the two writes that follow it
GradeByOracle(question, inp) ==
    LET g == LlmApiGradeSubmission(inp.oracle, question.maxPoints)
    IN  AndThen(Done(<<Write("oracle", question.id, "", <<>>)>>),
                AndThen(SetQuestionGrade(question.id, JsNum(g.score), inp),
                        SetQuestionComment(question.id, "", g.feedback, inp)))

\* a text question sent to the oracle whatever its answer
ProcessRegularQuestionAnyAnswer(question, inp) == GradeByOracle(question, inp)

\* processRegularQuestion(frame, question): an answer that cannot be read
\* is caught and taken as the empty string
ProcessRegularQuestion(question, inp) ==
    IF inp.answer \in {"empty", "unreadable"}
    THEN AndThen(SetQuestionGrade(question.id, JsNum(0), inp),
                 SetQuestionComment(question.id, "No answer provided", <<>>, inp))
    ELSE GradeByOracle(question, inp)

ManualNote ==
    "This submission requires manual grading because the file type cannot be automatically reviewed."

\* a file-upload question graded by the oracle whatever its file
ProcessFileUploadQuestionAnyFile(question, inp) ==
    IF inp.file = "nolink" THEN Raised ELSE GradeByOracle(question, inp)

\* processFileUploadQuestion(frame, question, student): without a file link
\* it raises; when isPreviewableFile says no, or extractFileContent raises,
\* skipGrading is set and only the note is written
ProcessFileUploadQuestion(question, inp) ==
    IF inp.file = "nolink" THEN Raised
    ELSE IF inp.file \in {"unpreviewable", "extractfails"}
    THEN SetQuestionComment(question.id, ManualNote, <<>>, inp)
    ELSE GradeByOracle(question, inp)

\* evaluatedGrades.find(result => result.questionId === questionId &&
\* result.studentId === studentId): the positions of the matching records
Found(grades, studentId, questionId) ==
    {i \in 1 .. Len(grades) :
        grades[i].studentId = studentId /\ grades[i].questionId = questionId}

\* gradeByPreviousGradingResults(question, student, frame)
GradeByPreviousGradingResults(question, studentId, grades, inp) ==
    LET hits == Found(grades, studentId, question.id)
        r == grades[Least(hits)]
    IN  IF hits = {} THEN Done(<<>>)
        ELSE AndThen(SetQuestionGrade(question.id, r.grade, inp),
                     SetQuestionComment(question.id,
                                        IF r.grade = JsNum(question.maxPoints)
                                        THEN ReviewedText ELSE r.comment,
                                        <<>>, inp))

\* the body of the try block of the question loop
ProcessQuestion(question, studentId, grades, inp) ==
    IF inp.fail = "early" THEN Raised
    ELSE IF question.fileUpload
    THEN IF Found(grades, studentId, question.id) # {}
         THEN GradeByPreviousGradingResults(question, studentId, grades, inp)
         ELSE ProcessFileUploadQuestion(question, inp)
    ELSE ProcessRegularQuestion(question, inp)

\* the question loop left at the first question that raises
CatchQuestionErrorBreak(q) == <<>>

\* the catch block of the question loop: the error is logged and the loop
\* goes on with the questions after the one that raised
CatchQuestionError(q) == Tail(q)

\* the student loop going back to the student at position i
SameStudent(i, n) == [idx |-> i, epc |-> "navigate"]

\* the student loop going on with the student after position i of n
NextStudent(i, n) == [idx |-> i + 1, epc |-> IF i + 1 > n THEN "finished" ELSE "navigate"]

\* the error of a student passed on to the catch block of processAssignment
CatchStudentErrorRethrow(i, n) == [idx |-> i, epc |-> "aborted"]

\* the catch block of the student loop: the error is logged and the loop
\* goes on with the next student
CatchStudentError(i, n) == NextStudent(i, n)

\* submitFeedback, had it required the confirmation to show
SubmitFeedbackConfirmed(feedback, o) ==
    IF o \in {"raise", "noconfirm"} THEN Raised
    ELSE Done(<<Write("feedback", "", feedback, <<>>)>>)

\* submitFeedback(feedback): the comment is filled in and submitted, or the
\* surface raises before it is; a confirmation that does not show within
\* the timeout is logged and the call returns
SubmitFeedback(feedback, o) ==
    IF o = "raise" THEN Raised ELSE Done(<<Write("feedback", "", feedback, <<>>)>>)

\* comment.replace(<the deduction phrases>, ''): the comments of the ledger
\* without their deduction phrase
StripDeductions(comment) ==
    IF comment = "units missing, -3" THEN "units missing" ELSE comment

\* a single-assignment block that annotates the student without a result
SingleAssignmentAnnotating(studentId, grades, cfg, inp, o) ==
    IF Found(grades, studentId, AssignmentId) = {}
    THEN SubmitFeedback(NotSubmittedText, o)
    ELSE Done(<<>>)

\* the single-assignment block of the student loop
SingleAssignment(studentId, grades, cfg, inp, o) ==
    LET hits == Found(grades, studentId, AssignmentId)
        r == grades[Least(hits)]
    IN  IF hits = {} THEN Done(<<>>)
        ELSE IF Falsy(r.grade) THEN Done(<<>>)
        ELSE IF cfg.binaryScore
        THEN AndThen(SetQuestionGrade(AssignmentId, r.grade, inp),
                     SubmitFeedback(GradedText, o))
        ELSE AndThen(IF inp.fail = "grade" THEN Raised
                     ELSE Done(<<Write("fill_grade", "", ToStringJs(r.grade), <<>>)>>),
                     SubmitFeedback(IF r.grade = JsNum(10) THEN GradedText
                                    ELSE StripDeductions(r.comment), o))

MaxButtons == 2
MaxInFlight == 2

\* a button of the frame: its id ("" when it has none), the classes of its
\* className, its type and the words of its text.  "GengXin" stands for
\* U+66F4 U+65B0 ('update') and "FenShu" for U+5206 U+6570 ('score').
Button(name, id, classes, type, text) ==
    [name |-> name, id |-> id, classes |-> classes, type |-> type, text |-> text]

\* the buttons a frame may hold
ButtonKinds ==
    {Button("b1", "update_scores", <<"btn">>, "button", <<"Update", "Scores">>),
     Button("b2", "", <<"btn", "primary">>, "button", <<"update">>),
     Button("b3", "", <<>>, "button", <<"Update", "Scores">>),
     Button("b4", "", <<"quiz_button">>, "button", <<"Save">>),
     Button("b5", "", <<"btn">>, "submit", <<"Save">>),
     Button("b6", "", <<"link">>, "button", <<"GengXin">>),
     Button("b7", "", <<"link">>, "button", <<"Cancel">>)}

\* the frames: their buttons in document order
Frames == DistinctSeqs(ButtonKinds, MaxButtons)

\* the frames the engine meets when it finalizes: without a button, with a
\* button that has an id, with a button that has neither id nor class
EngineFrames ==
    {<<>>} \cup {<<b>> : b \in {k \in ButtonKinds : k.name \in {"b1", "b3"}}}

\* word.toLowerCase()
ToLowerCase(word) ==
    CASE word = "Update" -> "update"
      [] word = "Scores" -> "scores"
      [] word = "Save" -> "save"
      [] word = "Cancel" -> "cancel"
      [] OTHER -> word

\* text.includes(words), for a text and a phrase given as words
Includes(text, words) ==
    \E i \in 1 .. Len(text) - Len(words) + 1 :
        SubSeq(text, i, i + Len(words) - 1) = words

\* the first position of a set of positions, 0 when there is none
First(S) == IF S = {} THEN 0 ELSE CHOOSE i \in S : \A j \in S : i <= j

\* the buttons of the frame that a selector matches: '#id', '.class',
\* 'button.class' or 'button[type="submit"]'; '.' alone is not a selector
SelectorMatches(buttons, selector) ==
    {i \in 1 .. Len(buttons) :
        CASE selector.kind = "id" -> buttons[i].id = selector.value
          [] selector.kind = "class" ->
                \E k \in 1 .. Len(buttons[i].classes) : buttons[i].classes[k] = selector.value
          [] selector.kind = "type" -> buttons[i].type = selector.value
          [] OTHER -> FALSE}

\* commonSelectors
CommonSelectors ==
    <<[kind |-> "class", value |-> "update-scores"],
      [kind |-> "class", value |-> "update_scores_button"],
      [kind |-> "class", value |-> "quiz_button"],
      [kind |-> "type", value |-> "submit"]>>

\* 1. the first button whose lower-cased text includes 'update' or whose
\* text includes U+66F4 U+65B0 U+5206 U+6570
ByTextContent(buttons) ==
    First({i \in 1 .. Len(buttons) :
              \/ Includes([k \in 1 .. Len(buttons[i].text) |->
                              ToLowerCase(buttons[i].text[k])], <<"update">>)
              \/ Includes(buttons[i].text, <<"GengXin", "FenShu">>)})

\* the selector made of the button found by its text: its id, or the first
\* class of its className
ButtonSelector(button) ==
    IF button.id # "" THEN [kind |-> "id", value |-> button.id]
    ELSE IF button.classes # <<>> THEN [kind |-> "class", value |-> button.classes[1]]
    ELSE [kind |-> "invalid", value |-> "."]

\* 2. the first of the common selectors that matches a button, 0 when none
ByCommonSelector(buttons) ==
    First({k \in 1 .. Len(CommonSelectors) :
              SelectorMatches(buttons, CommonSelectors[k]) # {}})

\* 3. the first button whose text includes 'Update' or U+66F4 U+65B0
ByUpdateText(buttons) ==
    First({i \in 1 .. Len(buttons) :
              \/ Includes(buttons[i].text, <<"Update">>)
              \/ Includes(buttons[i].text, <<"GengXin">>)})

\* the search of clickUpdateScoreButton: the strategy that ended it (0 when
\* none found a button), the position of the button clicked (0 when none
\* was), whether the click raised
UpdateButtonSearch(buttons) ==
    LET found == ByTextContent(buttons)
        selector == ButtonSelector(buttons[found])
        common == ByCommonSelector(buttons)
        text == ByUpdateText(buttons)
    IN  IF found # 0
        THEN IF selector.kind = "invalid"
             THEN [strategy |-> 1, clicked |-> 0, error |-> TRUE]
             ELSE [strategy |-> 1, clicked |-> First(SelectorMatches(buttons, selector)),
                   error |-> FALSE]
        ELSE IF common # 0
        THEN [strategy |-> 2,
              clicked |-> First(SelectorMatches(buttons, CommonSelectors[common])),
              error |-> FALSE]
        ELSE IF text # 0
        THEN [strategy |-> 3, clicked |-> text, error |-> FALSE]
        ELSE [strategy |-> 0, clicked |-> 0, error |-> FALSE]

\* clickUpdateScoreButton(frame): the button is clicked when one of the three
\* searches finds it; an error of a search or of the click is logged and
\* swallowed
ClickUpdateScoreButton(buttons) ==
    LET s == UpdateButtonSearch(buttons)
    IN  IF s.clicked # 0
        THEN Done(<<Write("click_update", buttons[s.clicked].name, "", <<>>)>>)
        ELSE Done(<<>>)

\* finalizeGrading(frame)
FinalizeGrading(buttons, o) ==
    AndThen(ClickUpdateScoreButton(buttons), SubmitFeedback(ReviewedText, o))

\* the entry the response listener stores for a submission of the body
TrackerEntry(submission) ==
    [known |-> TRUE,
     hasSubmission |-> submission.missing = "false",
     hasGraded |-> submission.workflow_state = "graded"]

\* an element of the submissions of a body of speed_grader.json
BodySubmission(user_id, missing, workflow_state) ==
    [user_id |-> user_id, missing |-> missing, workflow_state |-> workflow_state]

\* the bodies of speed_grader.json that mention every student; the field
\* missing may be absent
TrackerBodies ==
    {<<BodySubmission("S1", "false", "submitted"), BodySubmission("S2", "false", "submitted")>>,
     <<BodySubmission("S1", "true", "unsubmitted"), BodySubmission("S2", "false", "graded")>>,
     <<BodySubmission("S1", "false", "graded"), BodySubmission("S2", "absent", "submitted")>>}

\* the submissions of a body that mention the student
Mentions(submissions, s) == {i \in 1 .. Len(submissions) : submissions[i].user_id = s}

\* responseBody.submissions.forEach, had the map been built anew from each
\* body
RecordEventsAnew(tr, submissions) ==
    [s \in Students |->
        IF Mentions(submissions, s) = {} THEN Unknown
        ELSE TrackerEntry(submissions[CHOOSE i \in Mentions(submissions, s) :
                                         \A j \in Mentions(submissions, s) : j <= i])]

\* responseBody.submissions.forEach(submission => studentSubmissionStatus.set):
\* the last submission of the body that mentions a student sets the entry
RecordEvents(tr, submissions) ==
    [s \in Students |->
        IF Mentions(submissions, s) = {} THEN tr[s]
        ELSE TrackerEntry(submissions[CHOOSE i \in Mentions(submissions, s) :
                                         \A j \in Mentions(submissions, s) : j <= i])]

\* the branch the student loop takes for a tracker entry st, had the
\* tracker's hasGraded been ignored
RouteIgnoringGraded(st, cfg) ==
    IF st.known /\ ~st.hasSubmission THEN "nosub"
    ELSE IF cfg.assignmentType = "single" THEN "single" ELSE "check"

\* the branch the student loop takes, had the tracker not been consulted
RouteIgnoringTracker(st, cfg) ==
    IF cfg.assignmentType = "single" THEN "single" ELSE "check"

\* the branch the student loop takes after navigating, for the tracker
\* entry st of the student
Route(st, cfg) ==
    IF st.known /\ ~st.hasSubmission THEN "nosub"
    ELSE IF st.known /\ st.hasGraded THEN "graded"
    ELSE IF cfg.assignmentType = "single" THEN "single"
    ELSE "check"

\* the student being processed
Student == roster[idx]

\* the processing of the current student ends: how, and where the loop goes
EndStudent(how, next) ==
    /\ idx' = next.idx
    /\ epc' = next.epc
    /\ ended' = [ended EXCEPT ![Student] = how]
    /\ queue' = <<>>

\* the same after a step that returned or raised
EndStudentAfter(r) ==
    IF r.raised THEN EndStudent("raised", CatchStudentError(idx, Len(roster)))
    ELSE EndStudent("completed", NextStudent(idx, Len(roster)))

\* processAssignment up to the student loop: the ledger is read, the grader
\* page is opened and the roster is read
StartRun(r, o) ==
    /\ epc = "init"
    /\ evaluatedGrades' = IF ledger.exists THEN ParseLedger(ledger.text) ELSE <<>>
    /\ IF o = "raise"
       THEN roster' = <<>> /\ idx' = 0 /\ epc' = "aborted"
       ELSE roster' = r /\ idx' = 1 /\ epc' = IF r = <<>> THEN "finished" ELSE "navigate"
    /\ actor' = ""
    /\ lastOps' = <<>>
    /\ UNCHANGED <<config, tracker, queue, cur, ended, storeVars, oracleVars, batchVars, driverVars>>

\* a response of speed_grader.json arrives: the listener awaits its json()
ResponseArrives(body) ==
    /\ epc \notin {"init", "finished", "aborted"}
    /\ Len(responses.inflight) < MaxInFlight
    /\ responses' = [inflight |-> Append(responses.inflight, body),
                     arrived |-> RecordEvents(responses.arrived, body)]
    /\ actor' = ""
    /\ lastOps' = <<>>
    /\ UNCHANGED <<config, evaluatedGrades, roster, idx, epc, tracker, queue, cur, ended,
                   storeVars, oracleVars, batchVars, driver, scan, search, request>>

\* the json() of the response at position i resolves (a response whose body
\* is complete earlier resolves earlier) and the listener records its
\* submissions; a body that is not JSON or cannot be parsed records nothing
ResponseRecorded(i) ==
    /\ i \in 1 .. Len(responses.inflight)
    /\ tracker' = RecordEvents(tracker, responses.inflight[i])
    /\ responses' = [responses EXCEPT
           !.inflight = SubSeq(@, 1, i - 1) \o SubSeq(@, i + 1, Len(@))]
    /\ actor' = ""
    /\ lastOps' = <<>>
    /\ UNCHANGED <<config, evaluatedGrades, roster, idx, epc, queue, cur, ended,
                   storeVars, oracleVars, batchVars, driver, scan, search, request>>

\* the response listener receives a body of speed_grader.json while no other
\* response is awaited, and records it
TrackerEvent(body) ==
    /\ epc \notin {"init", "finished", "aborted"}
    /\ responses.inflight = <<>>
    /\ tracker' = RecordEvents(tracker, body)
    /\ responses' = [responses EXCEPT !.arrived = RecordEvents(@, body)]
    /\ actor' = ""
    /\ lastOps' = <<>>
    /\ UNCHANGED <<config, evaluatedGrades, roster, idx, epc, queue, cur, ended,
                   storeVars, oracleVars, batchVars, driver, scan, search, request>>

\* navigateToStudentSubmission, then the tracker is consulted
Navigate(o) ==
    /\ epc = "navigate"
    /\ actor' = Student
    /\ lastOps' = <<>>
    /\ IF o = "raise"
       THEN /\ cur' = [CurIdle EXCEPT !.student = Student]
            /\ EndStudent("raised", CatchStudentError(idx, Len(roster)))
       ELSE LET route == Route(tracker[Student], config)
            IN  /\ cur' = [CurIdle EXCEPT !.student = Student, !.route = route]
                /\ IF route = "graded"
                   THEN EndStudent("completed", NextStudent(idx, Len(roster)))
                   ELSE /\ epc' = IF route = "nosub" THEN "tracker_feedback" ELSE route
                        /\ UNCHANGED <<idx, ended, queue>>
    /\ UNCHANGED <<config, evaluatedGrades, roster, tracker, storeVars, oracleVars,
                   batchVars, driverVars>>

\* the tracker says the student has no submission: the feedback is submitted
\* and the loop continues
TrackerFeedback(o) ==
    /\ epc = "tracker_feedback"
    /\ actor' = Student
    /\ LET r == SubmitFeedback(NotSubmittedText, o)
       IN  lastOps' = r.ops /\ EndStudentAfter(r)
    /\ UNCHANGED <<config, evaluatedGrades, roster, tracker, cur, storeVars, oracleVars,
                   batchVars, driverVars>>

\* the single-assignment block
Single(inp, o) ==
    /\ epc = "single"
    /\ actor' = Student
    /\ LET r == SingleAssignment(Student, evaluatedGrades, config, inp, o)
       IN  lastOps' = r.ops /\ EndStudentAfter(r)
    /\ UNCHANGED <<config, evaluatedGrades, roster, tracker, cur, storeVars, oracleVars,
                   batchVars, driverVars>>

\* checkSubmissionStatus: it raises, or finds no submission, or nothing to
\* review, or the review queue q
CheckStatus(o, q) ==
    /\ epc = "check"
    /\ actor' = Student
    /\ lastOps' = <<>>
    /\ CASE o = "raise" ->
              /\ EndStudent("raised", CatchStudentError(idx, Len(roster)))
              /\ UNCHANGED cur
         [] o = "nosub" ->
              /\ epc' = "default_feedback"
              /\ UNCHANGED <<idx, ended, queue, cur>>
         [] o = "noreview" ->
              /\ EndStudent("completed", NextStudent(idx, Len(roster)))
              /\ UNCHANGED cur
         [] OTHER ->
              /\ epc' = "frame"
              /\ queue' = [i \in 1 .. Len(q) |-> PageQuestion(q[i])]
              /\ cur' = [cur EXCEPT !.queue0 = q]
              /\ UNCHANGED <<idx, ended>>
    /\ UNCHANGED <<config, evaluatedGrades, roster, tracker, storeVars, oracleVars,
                   batchVars, driverVars>>

\* the page shows no submission: the feedback is submitted; nothing needs
\* review
DefaultFeedback(o) ==
    /\ epc = "default_feedback"
    /\ actor' = Student
    /\ LET r == SubmitFeedback(NotSubmittedText, o)
       IN  lastOps' = r.ops /\ EndStudentAfter(r)
    /\ UNCHANGED <<config, evaluatedGrades, roster, tracker, cur, storeVars, oracleVars,
                   batchVars, driverVars>>

\* a question loop left after its first iteration
LoopEndsEarly(rest) == TRUE

\* for (const question of status.questionsToReview): the loop is left when
\* no question remains
LoopEnds(rest) == rest = <<>>

\* processStudentSubmission up to the question loop: the frame is acquired
AcquireFrame(o) ==
    /\ epc = "frame"
    /\ actor' = Student
    /\ lastOps' = <<>>
    /\ IF o = "raise"
       THEN EndStudent("raised", CatchStudentError(idx, Len(roster)))
       ELSE /\ epc' = IF LoopEnds(queue) THEN "finalize" ELSE "question"
            /\ UNCHANGED <<idx, ended, queue>>
    /\ UNCHANGED <<config, evaluatedGrades, roster, tracker, cur, storeVars, oracleVars,
                   batchVars, driverVars>>

\* one iteration of the question loop
Question(inp) ==
    /\ epc = "question"
    /\ actor' = Student
    /\ LET question == Head(queue)
           r == ProcessQuestion(question, Student, evaluatedGrades, inp)
           rest == IF r.raised THEN CatchQuestionError(queue) ELSE Tail(queue)
       IN  /\ lastOps' = r.ops
           /\ queue' = rest
           /\ cur' = [cur EXCEPT !.attempted = @ \cup {question.id},
                                  !.qfailed = IF r.raised THEN @ \cup {question.id} ELSE @]
           /\ epc' = IF LoopEnds(rest) THEN "finalize" ELSE "question"
    /\ UNCHANGED <<config, evaluatedGrades, roster, idx, tracker, ended, storeVars,
                   oracleVars, batchVars, driverVars>>

\* finalizeGrading after the question loop
Finalize(buttons, o) ==
    /\ epc = "finalize"
    /\ actor' = Student
    /\ cur' = [cur EXCEPT !.finalized = TRUE]
    /\ LET r == FinalizeGrading(buttons, o)
       IN  lastOps' = r.ops /\ EndStudentAfter(r)
    /\ UNCHANGED <<config, evaluatedGrades, roster, tracker, storeVars, oracleVars,
                   batchVars, driverVars>>

SurfaceOutcomes == {"ok", "raise"}

\* what the surface does on submitFeedback: the confirmation shows, or it
\* does not show within the timeout, or the fill or the click raises
FeedbackOutcomes == {"ok", "noconfirm", "raise"}

EngineNext ==
    \/ \E r \in Rosters, o \in SurfaceOutcomes : StartRun(r, o)
    \/ \E body \in TrackerBodies : TrackerEvent(body)
    \/ \E o \in SurfaceOutcomes : Navigate(o)
    \/ \E o \in FeedbackOutcomes : TrackerFeedback(o)
    \/ \E inp \in QuestionInputs, o \in FeedbackOutcomes : Single(inp, o)
    \/ \E o \in {"raise", "nosub", "noreview", "review"}, q \in ReviewQueues :
          CheckStatus(o, q)
    \/ \E o \in FeedbackOutcomes : DefaultFeedback(o)
    \/ \E o \in SurfaceOutcomes : AcquireFrame(o)
    \/ \E inp \in QuestionInputs : Question(inp)
    \/ \E buttons \in EngineFrames, o \in FeedbackOutcomes : Finalize(buttons, o)

EngineInit ==
    /\ results = <<>>
    /\ ledger \in EngineLedgers
    /\ savedFrom = <<>>
    /\ fresh = <<>>
    /\ freshLoaded = FALSE
    /\ OracleIdle
    /\ BatchIdle
    /\ config \in EngineConfigs
    /\ EngineStopped
    /\ DriverIdle

SpecEngine == EngineInit /\ [][EngineNext]_vars

(* C4: a raise in the processing of a student ends that student's           *)
(* processing and nothing else: no step acts for a student whose processing *)
(* has ended, the run is never aborted once the student loop has started,   *)
(* and when the run finishes the processing of every student of the roster  *)
(* has been run to its end or to its own raise.                             *)
C4_StudentIsolation ==
    /\ [](epc = "aborted" => idx = 0)
    /\ [][actor' \in Students => ended[actor'] = "no"]_vars
    /\ [](epc = "finished" => \A i \in 1 .. Len(roster) : ended[roster[i]] # "no")

\* the first student's processing raised, and the second student's went
\* through its whole review queue and was finalized
C4_Witness ==
    /\ epc = "finished"
    /\ Len(roster) = 2
    /\ ended[roster[1]] = "raised"
    /\ ended[roster[2]] = "completed"
    /\ actor = roster[2]
    /\ Len(cur.queue0) = 2
    /\ cur.attempted = ToSet(cur.queue0)
    /\ cur.finalized
    /\ \E i \in 1 .. Len(lastOps) :
          lastOps[i].op = "feedback" /\ lastOps[i].value = ReviewedText

(* C5: every question of a student's review queue is attempted, whether or  *)
(* not a question before it raised: while the loop runs the questions       *)
(* before the current one have all been attempted, and the loop is left     *)
(* only when all have been.                                                 *)
C5_QuestionIsolation ==
    /\ cur.qfailed \subseteq cur.attempted
    /\ epc = "question" =>
          cur.attempted =
              ToSet(SubSeq(cur.queue0, 1, Len(cur.queue0) - Len(queue)))
    /\ (epc = "finalize" \/ cur.finalized) => cur.attempted = ToSet(cur.queue0)

\* the first question of a queue of two raised and the second was processed
C5_Witness ==
    /\ epc = "finalize"
    /\ Len(cur.queue0) = 2
    /\ cur.queue0[1] \in cur.qfailed
    /\ cur.queue0[2] \in cur.attempted
    /\ cur.queue0[2] \notin cur.qfailed
    /\ lastOps # <<>>

-----------------------------------------------------------------------------
(* The compute drivers: main of the sequential driver (one submission after  *)
(* the other) and main of the parallel driver (the submissions left by the   *)
(* filter, graded together).                                                 *)

MaxListing == 3

\* the number of submissions of a batch of the parallel drivers: 100 and 10
\* in the code
BatchSize == 2

\* the number of results after which the sequential driver saves: 10 in
\* the code
SaveEvery == 2

\* the questions loadQuestions found a rubric for
Rubrics == {"Q1", "Q2"}

\* the students with files in the downloads directory
DriverStudents == BatchStudents \cup {"S4"}

\* the question of the submission getSubmissionFiles lists for a student
DriverQuestionOf(s) == IF s = "S3" THEN "Q9" ELSE BatchQuestionOf(s)

\* what getSubmissionFiles may return: one submission for each student listed
Listings ==
    {[i \in DOMAIN q |-> Submission(q[i], DriverQuestionOf(q[i]))] :
        q \in DistinctSeqs(DriverStudents, MaxListing)}

\* the ledgers the driver may find
DriverLedgers ==
    {[exists |-> FALSE, text |-> <<>>],
     SaveResultsOp(<<GradingResult("S1", "Q1", JsNum(7), "good", "t1")>>)}

\* a load that finds a record of an earlier run when the file is missing
LoadResultsStale(rs, file, read) ==
    IF file.exists THEN LoadResultsOp(rs, file)
    ELSE <<GradingResult("S1", "Q1", JsNum(0), "", "t1")>>

\* loadResults() when reading or parsing the file may fail: the error is
\* logged, false is returned and the store is left as it was
LoadResultsRead(rs, file, read) ==
    IF file.exists /\ read = "fails" THEN rs ELSE LoadResultsOp(rs, file)

\* the filter of the parallel driver with no look at the store
NeedsGradingAll(rs, sub) == sub.questionId \in Rubrics

\* the test both drivers make before grading a submission: there is a
\* rubric for its question and the store has no result for it
NeedsGrading(rs, sub) ==
    /\ sub.questionId \in Rubrics
    /\ ~ResultExists(rs, sub.studentId, sub.questionId)

\* this.results after the results of rs2 were added one by one
RECURSIVE AddAll(_, _)
AddAll(rs, rs2) == IF rs2 = <<>> THEN rs ELSE AddAll(AddResultOp(rs, Head(rs2)), Tail(rs2))

\* the kinds of driver: part_008 grades one submission after the other,
\* part_007 and part_009 grade the submissions of a batch in parallel
DriverKinds == {"sequential", "parallel", "batched"}

\* main up to the loop: the store is loaded, the submissions are listed and,
\* in the parallel drivers, filtered
DriverStart(kind, listing, read) ==
    /\ driver.pc = "idle"
    /\ LET rs == LoadResultsRead(results, ledger, read)
           Needs(sub) == NeedsGrading(rs, sub)
       IN  /\ results' = rs
           /\ driver' = [driver EXCEPT
                  !.pc = "loop",
                  !.kind = kind,
                  !.listed = listing,
                  !.todo = IF kind = "sequential" THEN listing
                           ELSE SelectSeq(listing, Needs),
                  !.loaded = rs,
                  !.loadFailed = ledger.exists /\ read = "fails"]
    /\ UNCHANGED <<ledger, savedFrom, fresh, freshLoaded, oracleVars, batchVars,
                   engineVars, scan, search, responses, request>>

\* one iteration of the loop of the sequential driver: the submission is
\* skipped, or its content is extracted and it is graded and stored; every
\* tenth result the store is saved; an error is caught and counted
SequentialStep(extract, outcome, write) ==
    /\ driver.pc = "loop"
    /\ driver.kind = "sequential"
    /\ driver.todo # <<>>
    /\ LET sub == Head(driver.todo)
           call == GradeSubmission(sub, outcome, QuestionOf(sub.questionId), "t2")
           count == driver.processedCount + 1
       IN  IF ~NeedsGrading(results, sub) \/ extract = "raise"
           THEN /\ driver' = [driver EXCEPT !.todo = Tail(@)]
                /\ UNCHANGED <<results, ledger>>
           ELSE /\ results' = AddResultOp(results, call.result)
                /\ driver' = [driver EXCEPT
                       !.todo = Tail(@),
                       !.invoked = @ \cup {sub},
                       !.processedCount = count,
                       !.saveFailed = @ \/ (count % SaveEvery = 0 /\ write = "fails")]
                /\ ledger' = IF count % SaveEvery = 0 /\ write = "ok"
                             THEN SaveResultsOp(results')
                             ELSE ledger
    /\ UNCHANGED <<savedFrom, fresh, freshLoaded, oracleVars, batchVars, engineVars, scan, search, responses, request>>

\* a batch holding every submission still to grade
SliceAll(todo) == todo

\* filteredSubmissions.slice(i, i + batchSize)
Slice(todo) == SubSeq(todo, 1, Min(BatchSize, Len(todo)))

\* for (const batch of batches): Promise.all starts the calls of the batch
LaunchBatch ==
    /\ driver.pc = "loop"
    /\ driver.kind \in {"parallel", "batched"}
    /\ driver.todo # <<>>
    /\ driver.batch = <<>>
    /\ LET batch == Slice(driver.todo)
       IN  driver' = [driver EXCEPT
               !.batch = [i \in 1 .. Len(batch) |->
                             [sub |-> batch[i], state |-> "pending", result |-> NoResult]],
               !.todo = SubSeq(@, Len(batch) + 1, Len(@))]
    /\ UNCHANGED <<results, ledger, savedFrom, fresh, freshLoaded, oracleVars, batchVars,
                   engineVars, scan, search, responses, request>>

\* the call of the submission at position i of the batch settles.  When the
\* extraction raises, realTimeApi of part_007 rejects and main exits, while
\* processSubmission of part_009 catches the error and returns a marker
CallSettles(i, extract, outcome) ==
    /\ driver.pc = "loop"
    /\ i \in 1 .. Len(driver.batch)
    /\ driver.batch[i].state = "pending"
    /\ LET sub == driver.batch[i].sub
           call == GradeSubmission(sub, outcome, QuestionOf(sub.questionId), "t2")
       IN  driver' =
              IF extract = "raise"
              THEN IF driver.kind = "parallel" THEN [driver EXCEPT !.pc = "fatal"]
                   ELSE [driver EXCEPT !.batch[i].state = "error"]
              ELSE [driver EXCEPT !.batch[i].state = "result",
                                  !.batch[i].result = call.result,
                                  !.invoked = @ \cup {sub}]
    /\ UNCHANGED <<results, ledger, savedFrom, fresh, freshLoaded, oracleVars, batchVars,
                   engineVars, scan, search, responses, request>>

\* some call of the batch has settled
SomeSettled(batch) == \E i \in 1 .. Len(batch) : batch[i].state # "pending"

\* await Promise.all: every call of the batch has settled
AllSettled(batch) == \A i \in 1 .. Len(batch) : batch[i].state # "pending"

\* the results of the batch, in the order of the batch
ResultsOf(batch) ==
    LET IsResult(b) == b.state = "result"
        got == SelectSeq(batch, IsResult)
    IN  [i \in 1 .. Len(got) |-> got[i].result]

\* after Promise.all: the results of the batch are added to the store and
\* the store is saved; a failing save raises and main exits.  part_007
\* leaves the loop after the first batch (break)
FlushBatch(write) ==
    /\ driver.pc = "loop"
    /\ driver.batch # <<>>
    /\ AllSettled(driver.batch)
    /\ results' = AddAll(results, ResultsOf(driver.batch))
    /\ driver' = [driver EXCEPT
           !.batch = <<>>,
           !.todo = IF driver.kind = "parallel" THEN <<>> ELSE @,
           !.processedCount = @ + Len(ResultsOf(driver.batch)),
           !.saveFailed = write = "fails",
           !.pc = IF write = "fails" THEN "fatal" ELSE "loop"]
    /\ ledger' = IF write = "ok" THEN SaveResultsOp(results') ELSE ledger
    /\ UNCHANGED <<savedFrom, fresh, freshLoaded, oracleVars, batchVars, engineVars, scan, search, responses, request>>

\* the final saveResults of main: a failing write raises and main exits
FinalSave(write) ==
    /\ driver.pc = "loop"
    /\ driver.todo = <<>>
    /\ driver.batch = <<>>
    /\ IF write = "ok"
       THEN /\ ledger' = SaveResultsOp(results)
            /\ driver' = [driver EXCEPT !.pc = "done"]
       ELSE /\ driver' = [driver EXCEPT !.pc = "fatal", !.saveFailed = TRUE]
            /\ UNCHANGED ledger
    /\ UNCHANGED <<results, savedFrom, fresh, freshLoaded, oracleVars, batchVars,
                   engineVars, scan, search, responses, request>>

\* what the oracle does on one call
DriverOutcomes ==
    {[kind |-> "text", text |-> RespJson], [kind |-> "throw", text |-> <<>>]}

DriverNext ==
    \/ \E k \in DriverKinds, l \in Listings, r \in {"ok", "fails"} : DriverStart(k, l, r)
    \/ \E e \in {"ok", "raise"}, o \in DriverOutcomes, w \in {"ok", "fails"} :
          SequentialStep(e, o, w)
    \/ LaunchBatch
    \/ \E i \in 1 .. BatchSize, e \in {"ok", "raise"}, o \in DriverOutcomes :
          CallSettles(i, e, o)
    \/ \E w \in {"ok", "fails"} : FlushBatch(w)
    \/ \E w \in {"ok", "fails"} : FinalSave(w)

DriverInit ==
    /\ results = <<>>
    /\ ledger \in DriverLedgers
    /\ savedFrom = <<>>
    /\ fresh = <<>>
    /\ freshLoaded = FALSE
    /\ OracleIdle
    /\ BatchIdle
    /\ EngineIdle
    /\ DriverIdle

SpecDriver == DriverInit /\ [][DriverNext]_vars

\* the submission has a result in the store as the driver loaded it
InLoadedStore(sub) ==
    \E i \in 1 .. Len(driver.loaded) :
        /\ driver.loaded[i].studentId = sub.studentId
        /\ driver.loaded[i].questionId = sub.questionId

(* C22: the compute driver never sends to the oracle a submission whose      *)
(* (studentId, questionId) has a result in the store loaded at the start of  *)
(* the run.                                                                  *)
C22_NoRecomputation == \A sub \in driver.invoked : ~InLoadedStore(sub)

\* a run that loaded a result for one submission, skipped it and graded
\* another
C22_Witness ==
    /\ driver.pc = "done"
    /\ driver.loaded # <<>>
    /\ driver.invoked # {}
    /\ InLoadedStore(Submission("S1", "Q1"))
    /\ Submission("S2", "Q2") \in driver.invoked
    /\ Len(results) = 2

\* the submissions of a listing that have a rubric
WithRubric(listing) ==
    LET Has(sub) == sub.questionId \in Rubrics IN SelectSeq(listing, Has)

(* C27: loadResults on a missing ledger file does not raise and leaves the   *)
(* store empty: resultExists is false for every key, and the driver goes on  *)
(* with every listed submission that has a rubric as not yet graded.         *)
C27_MissingLedgerIsEmpty ==
    [][\A k \in DriverKinds, l \in Listings, r \in {"ok", "fails"} :
          (~ledger.exists /\ DriverStart(k, l, r))
             => /\ results' = <<>>
                /\ \A s \in BatchStudents, q \in Rubrics : ~ResultExists(results', s, q)
                /\ driver'.pc = "loop"
                /\ ~driver'.loadFailed
                /\ driver'.todo = IF k = "sequential" THEN l ELSE WithRubric(l)
                /\ \A i \in 1 .. Len(l) :
                      l[i].questionId \in Rubrics => NeedsGrading(results', l[i])]_vars

\* a run that found no ledger, graded both submissions listed and saved
C27_Witness ==
    /\ driver.pc = "done"
    /\ driver.loaded = <<>>
    /\ ~driver.loadFailed
    /\ Cardinality(driver.invoked) = 2
    /\ Len(results) = 2
    /\ ledger.exists

(* C26: when the ledger exists but cannot be read or parsed at the start of  *)
(* the run, or cannot be written at a save, the run aborts: from then on no  *)
(* submission is sent to the oracle and the ledger is not overwritten.       *)
C26_StorageErrorIsFatal ==
    [][/\ (driver'.loadFailed \/ driver'.saveFailed) => driver'.pc = "fatal"
       /\ (driver.loadFailed \/ driver.saveFailed)
             => (driver'.invoked = driver.invoked /\ ledger' = ledger)]_vars

\* the tracker entry the engine finds when it consults the tracker for the
\* student it has navigated to
Consulted == tracker[roster[idx]]

\* this step is the navigation to the current student, and it did not raise
Navigated == epc = "navigate" /\ actor' = roster[idx] /\ ended'[roster[idx]] # "raised"

\* the 'not submitted' annotation, as the only write of a step
NotSubmittedOnly == <<Write("feedback", "", NotSubmittedText, <<>>)>>

(* C14: when the tracker entry consulted for a student has hasSubmission =   *)
(* false, the engine takes the 'not submitted' branch; on that branch no     *)
(* question is processed and nothing is finalized, and the one step taken    *)
(* for the student submits the annotation once, writes nothing else, and     *)
(* ends the student.                                                         *)
C14_NotSubmitted ==
    /\ [][(Navigated /\ Consulted.known /\ ~Consulted.hasSubmission)
             => cur'.route = "nosub"]_vars
    /\ [](cur.route = "nosub" =>
             /\ cur.attempted = {}
             /\ ~cur.finalized
             /\ ended[cur.student] = "no" => (epc = "tracker_feedback" /\ lastOps = <<>>))
    /\ [][(cur.route = "nosub" /\ ended[cur.student] = "no" /\ actor' = cur.student)
             => /\ cur' = cur
                /\ idx' = idx + 1
                /\ \/ ended'[cur.student] = "completed" /\ lastOps' = NotSubmittedOnly
                   \/ ended'[cur.student] = "raised" /\ lastOps' = <<>>]_vars

\* the first student of two was annotated 'not submitted' and the loop is at
\* the second
C14_Witness ==
    /\ cur.route = "nosub"
    /\ actor = cur.student
    /\ ended[cur.student] = "completed"
    /\ lastOps = NotSubmittedOnly
    /\ idx = 2
    /\ epc = "navigate"

(* C15: when the tracker entry consulted for a student has hasSubmission and *)
(* hasGraded, the navigation step itself ends the student: nothing is        *)
(* written on the surface for the student (no score, no comment, no          *)
(* feedback) and the loop is at the next student.                            *)
C15_GradedUntouched ==
    /\ [][(Navigated /\ Consulted.known /\ Consulted.hasSubmission /\ Consulted.hasGraded)
             => /\ cur'.route = "graded"
                /\ lastOps' = <<>>
                /\ ended'[roster[idx]] = "completed"
                /\ idx' = idx + 1]_vars
    /\ [](cur.route = "graded" =>
             /\ ended[cur.student] = "completed"
             /\ lastOps = <<>>
             /\ cur.attempted = {}
             /\ ~cur.finalized)

\* the first student of two was skipped as already graded
C15_Witness ==
    /\ cur.route = "graded"
    /\ actor = cur.student
    /\ tracker[cur.student].hasGraded
    /\ ended[cur.student] = "completed"
    /\ idx = 2
    /\ epc = "navigate"

\* this step is the single-assignment block of the current student
SingleStep == cur.route = "single" /\ ended[cur.student] = "no" /\ actor' = cur.student

\* the precomputed results of the current student for the assignment
SingleHits == Found(evaluatedGrades, cur.student, AssignmentId)

ScoreWrites(ops) == {i \in 1 .. Len(ops) : ops[i].op \in {"fill_grade", "select"}}

\* the feedback submissions among ops
FeedbackWrites(ops) == {i \in 1 .. Len(ops) : ops[i].op = "feedback"}

(* C17: in single-question mode, a student the tracker did not skip and who  *)
(* has a precomputed result whose score is a number from 0 to the maximum,   *)
(* 0 included, gets the score written and a feedback submitted, whenever the *)
(* surface does not raise.                                                   *)
C17_ResultApplied ==
    [][(/\ SingleStep
        /\ SingleHits # {}
        /\ evaluatedGrades[Least(SingleHits)].grade.t = "num"
        /\ evaluatedGrades[Least(SingleHits)].grade.n \in 0 .. 10
        /\ ended'[cur.student] = "completed")
          => /\ ScoreWrites(lastOps') # {}
             /\ FeedbackWrites(lastOps') # {}]_vars

\* the short acknowledgments the engine writes in place of a comment
Acknowledgments == {GradedText, ReviewedText}

\* the feedback or comment written for the precomputed result r of a
\* question or assignment worth maxPoints, as the claim has it
FeedbackFor(r, maxPoints, text) ==
    IF r.grade = JsNum(maxPoints) THEN text \in Acknowledgments
    ELSE text \in {r.comment, StripDeductions(r.comment)}

(* C18: when a precomputed result is applied, the feedback written is a      *)
(* short acknowledgment exactly when the grade equals the maximum points of  *)
(* the assignment or question, and the stored comment otherwise, in single-  *)
(* question and in multi-question mode.                                      *)
C18_FullMarkAcknowledged ==
    actor # "" /\ actor = cur.student =>
        \A i \in 1 .. Len(lastOps) :
            /\ (cur.route = "single" /\ lastOps[i].op = "feedback") =>
                   FeedbackFor(evaluatedGrades[Least(SingleHits)],
                               PageQuestion(AssignmentId).maxPoints, lastOps[i].value)
            /\ (/\ cur.route = "check"
                /\ lastOps[i].op = "fill_comment"
                /\ Found(evaluatedGrades, actor, lastOps[i].target) # {}
                /\ PageQuestion(lastOps[i].target).fileUpload) =>
                   FeedbackFor(evaluatedGrades[Least(Found(evaluatedGrades, actor,
                                                           lastOps[i].target))],
                               PageQuestion(lastOps[i].target).maxPoints,
                               lastOps[i].value)

(* C19: in multi-question mode, for a question of either kind for which the  *)
(* ledger holds a result of the student, the oracle is not invoked and what  *)
(* is written for the question is the stored score and the stored comment.   *)
C19_LedgerBeforeOracle ==
    (actor # "" /\ actor = cur.student /\ cur.route = "check") =>
        \A i \in 1 .. Len(lastOps) :
            LET hits == Found(evaluatedGrades, actor, lastOps[i].target)
                r == evaluatedGrades[Least(hits)]
            IN  (lastOps[i].target \in EngineQuestions /\ hits # {}) =>
                    \/ /\ lastOps[i].op = "fill_grade"
                       /\ lastOps[i].value = ToStringJs(r.grade)
                    \/ /\ lastOps[i].op = "select"
                       /\ lastOps[i].value = IF Positive(r.grade) THEN "complete"
                                             ELSE "incomplete"
                    \/ /\ lastOps[i].op = "fill_comment"
                       /\ lastOps[i].value \in {r.comment, ReviewedText}

\* the note of a question left for manual grading, as the only thing a step did
ManualNoteOnly(questionId) == <<Write("fill_comment", questionId, ManualNote, <<>>)>>

(* C20: a file-upload question without a precomputed result whose file is    *)
(* not previewable, or whose content extraction raises, gets the 'requires   *)
(* manual grading' comment and nothing else: no score is written and the     *)
(* oracle is not invoked.                                                    *)
C20_ManualGradingNote ==
    [][\A inp \in QuestionInputs :
          (/\ inp.file \in {"unpreviewable", "extractfails"}
           /\ epc = "question"
           /\ Head(queue).fileUpload
           /\ Found(evaluatedGrades, roster[idx], Head(queue).id) = {}
           /\ Question(inp))
             => lastOps' = ManualNoteOnly(Head(queue).id)]_vars

\* a file-upload question of a student without a ledger result was left for
\* manual grading, and the question did not raise
C20_Witness ==
    /\ actor # ""
    /\ actor = cur.student
    /\ cur.route = "check"
    /\ lastOps = ManualNoteOnly("Q1")
    /\ PageQuestion("Q1").fileUpload
    /\ Found(evaluatedGrades, actor, "Q1") = {}
    /\ "Q1" \in cur.attempted \ cur.qfailed

\* what a step writes for a question it finds without an answer
NoAnswerOps(questionId) ==
    <<Write("fill_grade", questionId, "0", <<>>),
      Write("fill_comment", questionId, "No answer provided", <<>>)>>

\* what a step does for a question it sends to the oracle, when the oracle
\* returns g
OracleOps(questionId, g) ==
    <<Write("oracle", questionId, "", <<>>),
      Write("fill_grade", questionId, ToStringJs(JsNum(g.score)), <<>>),
      Write("fill_comment", questionId, "", g.feedback)>>

(* C21: a text question whose answer is empty or cannot be read gets score 0 *)
(* and the 'no answer' comment, and the oracle is not invoked; a text        *)
(* question with an answer is sent to the oracle, and the score and the      *)
(* feedback the oracle returned are the ones written.                        *)
C21_EmptyAnswerSkipsOracle ==
    [][\A inp \in QuestionInputs :
          (/\ epc = "question"
           /\ ~Head(queue).fileUpload
           /\ inp.fail = "none"
           /\ inp.field = "standard"
           /\ Question(inp))
             => lastOps' = IF inp.answer \in {"empty", "unreadable"}
                           THEN NoAnswerOps(Head(queue).id)
                           ELSE OracleOps(Head(queue).id,
                                          LlmApiGradeSubmission(inp.oracle,
                                                                Head(queue).maxPoints))]_vars

\* a text question was found without an answer and got the score 0
C21_Witness ==
    /\ actor # ""
    /\ actor = cur.student
    /\ ~PageQuestion("Q2").fileUpload
    /\ lastOps = NoAnswerOps("Q2")
    /\ "Q2" \in cur.attempted \ cur.qfailed

\* the positions of the student loop that lie behind checkSubmissionStatus
Probed == {"default_feedback", "question", "finalize"}

(* C23: while the tracker holds no status for the current student, every     *)
(* step that writes a score or submits a feedback for that student comes     *)
(* after the probe of the surface (checkSubmissionStatus), in single mode as *)
(* well as in multi mode.                                                    *)
C23_ProbeBeforeWrite ==
    [][(/\ epc \notin {"init", "finished", "aborted"}
        /\ ~tracker[roster[idx]].known
        /\ actor' = roster[idx]
        /\ ScoreWrites(lastOps') \cup FeedbackWrites(lastOps') # {})
          => epc \in Probed]_vars

-----------------------------------------------------------------------------
(* The submission files: parseFileName and getSubmissionFiles.  A file name  *)
(* is the sequence of its characters.                                        *)

MaxFiles == 2

Digit == {"0", "1", "2", "3", "4", "5", "6", "7", "8", "9"}

\* \d{n} at the positions a .. b of name
IsDigits(name, a, b) == \A i \in a .. b : name[i] \in Digit

\* .+ : at least one character, none of them a line terminator
IsRest(s) == Len(s) >= 1 /\ \A i \in 1 .. Len(s) : s[i] # "\n"

QuestionInfix == <<"_", "q", "u", "e", "s", "t", "i", "o", "n", "_">>
LateInfix == <<"L", "A", "T", "E", "_">>

\* path.join(directory, file)
PathJoin(directory, file) == directory \o <<"/">> \o file

\* path.basename(filePath)
Basename(filePath) ==
    LET slashes == {i \in 1 .. Len(filePath) : filePath[i] = "/"}
        last == CHOOSE i \in slashes : \A j \in slashes : j <= i
    IN  IF slashes = {} THEN filePath ELSE SubSeq(filePath, last + 1, Len(filePath))

\* fileName.match(/^(\d{7})(\d{6})_question_(\d{6})_(\d{7})_(.+)$/): the
\* groups of the match, or nothing
MatchGroup(fileName) ==
    IF /\ Len(fileName) >= 39
       /\ IsDigits(fileName, 1, 13)
       /\ SubSeq(fileName, 14, 23) = QuestionInfix
       /\ IsDigits(fileName, 24, 29)
       /\ fileName[30] = "_"
       /\ IsDigits(fileName, 31, 37)
       /\ fileName[38] = "_"
       /\ IsRest(SubSeq(fileName, 39, Len(fileName)))
    THEN {<<SubSeq(fileName, 1, 7), SubSeq(fileName, 8, 13), SubSeq(fileName, 24, 29),
            SubSeq(fileName, 31, 37), SubSeq(fileName, 39, Len(fileName))>>}
    ELSE {}

\* the match of /^(\d{7})_(?:LATE_)?(\d{6})_(\d{7})_(.+)$/ with the student
\* id starting at position k
MatchSingleAt(fileName, k) ==
    IF /\ Len(fileName) >= k + 15
       /\ IsDigits(fileName, 1, 7)
       /\ fileName[8] = "_"
       /\ IsDigits(fileName, k, k + 5)
       /\ fileName[k + 6] = "_"
       /\ IsDigits(fileName, k + 7, k + 13)
       /\ fileName[k + 14] = "_"
       /\ IsRest(SubSeq(fileName, k + 15, Len(fileName)))
    THEN {<<SubSeq(fileName, 1, 7), SubSeq(fileName, k, k + 5),
            SubSeq(fileName, k + 7, k + 13), SubSeq(fileName, k + 15, Len(fileName))>>}
    ELSE {}

\* the single-mode pattern, had it no optional LATE_ infix
MatchSingleNoLate(fileName) == MatchSingleAt(fileName, 9)

\* fileName.match(/^(\d{7})_(?:LATE_)?(\d{6})_(\d{7})_(.+)$/)
MatchSingle(fileName) ==
    IF /\ Len(fileName) >= 13
       /\ SubSeq(fileName, 9, 13) = LateInfix
       /\ MatchSingleAt(fileName, 14) # {}
    THEN MatchSingleAt(fileName, 14)
    ELSE MatchSingleAt(fileName, 9)

SubmissionInfo(studentNumber, studentId, questionId, submissionId, filePath) ==
    [studentNumber |-> studentNumber, studentId |-> studentId,
     questionId |-> questionId, submissionId |-> submissionId, files |-> <<filePath>>]

\* parseFileName: the info, or nothing (null) when the name does not match
\* or the assignment type is not supported (the throw is caught)
ParseFileName(filePath, assignmentType) ==
    LET fileName == Basename(filePath) IN
    CASE assignmentType = "group" ->
           {SubmissionInfo(m[1], m[2], m[3], m[4], filePath) : m \in MatchGroup(fileName)}
      [] assignmentType = "single" ->
           {SubmissionInfo(m[1], m[2], AssignmentId, m[3], filePath) :
               m \in MatchSingle(fileName)}
      [] OTHER -> {}

\* the body of the loop of getSubmissionFiles on the map, had the map been
\* keyed by student and question
SetByStudentAndQuestion(map, info) ==
    IF \E i \in 1 .. Len(map) : /\ map[i].studentId = info.studentId
                                /\ map[i].questionId = info.questionId
    THEN [i \in 1 .. Len(map) |->
             IF map[i].studentId = info.studentId /\ map[i].questionId = info.questionId
             THEN [info EXCEPT !.files = map[i].files \o info.files]
             ELSE map[i]]
    ELSE Append(map, info)

\* the body of the loop of getSubmissionFiles on the map stuIdSubFile (a Map
\* keeps the position of a key that is set again): the info takes the place
\* of the one the student has, with the files seen so far and its own
SetByStudent(map, info) ==
    IF \E i \in 1 .. Len(map) : map[i].studentId = info.studentId
    THEN [i \in 1 .. Len(map) |->
             IF map[i].studentId = info.studentId
             THEN [info EXCEPT !.files = map[i].files \o info.files]
             ELSE map[i]]
    ELSE Append(map, info)

StudentNumber == <<"1", "2", "3", "4", "5", "6", "7">>
StudentA == <<"1", "2", "3", "4", "5", "6">>
StudentB == <<"6", "5", "4", "3", "2", "1">>
Question1 == <<"0", "0", "0", "0", "0", "1">>
Question2 == <<"0", "0", "0", "0", "0", "2">>
SubmissionNo == <<"0", "0", "0", "1", "2", "3", "4">>
FilePy == <<"f", "i", "l", "e", ".", "p", "y">>
BPy == <<"b", ".", "p", "y">>
Sep == <<"_">>

GroupName(student, question, name) ==
    StudentNumber \o student \o QuestionInfix \o question \o Sep \o SubmissionNo
        \o Sep \o name

SingleName(late, student, name) ==
    StudentNumber \o Sep \o late \o student \o Sep \o SubmissionNo \o Sep \o name

\* "1234567123456_question_000001_0001234_file.py"
GroupedExample == GroupName(StudentA, Question1, FilePy)

\* "1234567_LATE_123456_0001234_file.py"
LateExample == SingleName(LateInfix, StudentA, FilePy)

\* "1234567_123456_0001234_file.py"
PlainExample == SingleName(<<>>, StudentA, FilePy)

\* names that match neither pattern: no digits at all, a question id of five
\* digits, nothing after the last underscore
BadNames ==
    {<<"n", "o", "t", "e", "s">>,
     GroupName(StudentA, Tail(Question1), FilePy),
     SingleName(<<>>, StudentA, <<>>)}

FileNames ==
    {GroupedExample, GroupName(StudentA, Question1, BPy),
     GroupName(StudentA, Question2, FilePy), GroupName(StudentB, Question1, FilePy),
     LateExample, PlainExample, SingleName(<<>>, StudentB, BPy)} \cup BadNames

\* the entries of the downloads directory: files, and one subdirectory
DirEntries ==
    [name : FileNames, isFile : {TRUE}]
        \cup {[name |-> GroupName(StudentB, Question2, FilePy), isFile |-> FALSE]}

DownloadsDir == <<"d", "l">>

\* what readdirSync may return
Directories == DistinctSeqs(DirEntries, MaxFiles)

\* getSubmissionFiles up to the loop: the directory is missing, or it is read
ReadDir(assignmentType, exists, files) ==
    /\ scan.pc = "idle"
    /\ scan' = IF exists
               THEN [ScanIdle EXCEPT !.pc = "loop", !.assignmentType = assignmentType,
                                     !.exists = TRUE, !.files = files, !.todo = files]
               ELSE [ScanIdle EXCEPT !.pc = "done", !.assignmentType = assignmentType]
    /\ UNCHANGED <<storeVars, oracleVars, batchVars, engineVars, driver, search, responses, request>>

\* one iteration of the loop over the directory
ScanFile ==
    /\ scan.pc = "loop"
    /\ scan.todo # <<>>
    /\ LET file == Head(scan.todo)
           filePath == PathJoin(DownloadsDir, file.name)
           info == IF file.isFile THEN ParseFileName(filePath, scan.assignmentType)
                   ELSE {}
       IN  scan' = [scan EXCEPT
               !.todo = Tail(@),
               !.stuIdSubFile = IF info = {} THEN @
                                ELSE SetByStudent(@, CHOOSE i \in info : TRUE)]
    /\ UNCHANGED <<storeVars, oracleVars, batchVars, engineVars, driver, search, responses, request>>

\* after the loop: the values of the map are returned
ReturnSubmissions ==
    /\ scan.pc = "loop"
    /\ scan.todo = <<>>
    /\ scan' = [scan EXCEPT !.pc = "done", !.submissions = scan.stuIdSubFile]
    /\ UNCHANGED <<storeVars, oracleVars, batchVars, engineVars, driver, search, responses, request>>

FilesNext ==
    \/ \E t \in {"group", "single", "undefined"}, e \in BOOLEAN, f \in Directories :
          ReadDir(t, e, f)
    \/ ScanFile
    \/ ReturnSubmissions

FilesInit == StoreInit

SpecFiles == FilesInit /\ [][FilesNext]_vars

\* the paths of the files of the directory that parseFileName accepts
ParsedPaths ==
    LET paths == [i \in 1 .. Len(scan.files) |-> PathJoin(DownloadsDir, scan.files[i].name)]
        Parsed(i) == /\ scan.files[i].isFile
                     /\ ParseFileName(paths[i], scan.assignmentType) # {}
        Pick(ix) == [i \in 1 .. Len(ix) |-> paths[ix[i]]]
    IN  Pick(SelectSeq([i \in 1 .. Len(scan.files) |-> i], Parsed))

\* the info parseFileName gives for a path it accepts
InfoOf(path) == CHOOSE i \in ParseFileName(path, scan.assignmentType) : TRUE

\* the (studentId, questionId) pairs among the parsed files
ParsedKeys ==
    {<<InfoOf(ParsedPaths[i]).studentId, InfoOf(ParsedPaths[i]).questionId>> :
        i \in 1 .. Len(ParsedPaths)}

\* the parsed files of a key, in the order of the directory listing
FilesOfKey(key) ==
    LET Has(path) == <<InfoOf(path).studentId, InfoOf(path).questionId>> = key
    IN  SelectSeq(ParsedPaths, Has)

(* C24: getSubmissionFiles returns exactly one record per distinct           *)
(* (studentId, questionId) among the parsed files, and the files of that     *)
(* record are all and only the files of the key, in the order of the         *)
(* directory listing.                                                        *)
C24_OneRecordPerKey ==
    (scan.pc = "done" /\ scan.exists)
       => /\ Len(scan.submissions) = Cardinality(ParsedKeys)
          /\ \A key \in ParsedKeys :
                \E i \in 1 .. Len(scan.submissions) :
                    /\ scan.submissions[i].studentId = key[1]
                    /\ scan.submissions[i].questionId = key[2]
                    /\ scan.submissions[i].files = FilesOfKey(key)

\* the parse of a name under a mode
ParseName(name, assignmentType) == ParseFileName(PathJoin(DownloadsDir, name), assignmentType)

\* the files of the records returned
ReturnedFiles ==
    UNION {{scan.submissions[i].files[j] : j \in 1 .. Len(scan.submissions[i].files)} :
              i \in 1 .. Len(scan.submissions)}

(* C25: parseFileName follows the grammar of the mode.  The grouped example  *)
(* yields studentNumber 1234567, studentId 123456, questionId 000001 and     *)
(* submissionId 0001234; the single example, with or without LATE_, yields   *)
(* studentId 123456 and the configured assignment id as questionId; a name   *)
(* that does not match yields null, and the listing skips it and goes on     *)
(* with the files after it.                                                  *)
C25_FileNameGrammar ==
    /\ \A i \in 1 .. Len(scan.files) :
          LET name == scan.files[i].name
              info == ParseName(name, scan.assignmentType)
          IN  /\ (scan.assignmentType = "group" /\ name = GroupedExample)
                    => /\ info # {}
                       /\ \A r \in info :
                             /\ r.studentNumber = StudentNumber
                             /\ r.studentId = StudentA
                             /\ r.questionId = Question1
                             /\ r.submissionId = SubmissionNo
                             /\ r.files = <<PathJoin(DownloadsDir, name)>>
              /\ (scan.assignmentType = "single" /\ name \in {LateExample, PlainExample})
                    => /\ info # {}
                       /\ \A r \in info :
                             /\ r.studentNumber = StudentNumber
                             /\ r.studentId = StudentA
                             /\ r.questionId = AssignmentId
                             /\ r.submissionId = SubmissionNo
              /\ name \in BadNames => info = {}
              /\ (scan.assignmentType = "group" /\ name \in {LateExample, PlainExample})
                    => info = {}
              /\ (scan.assignmentType = "single" /\ name = GroupedExample) => info = {}
    /\ (scan.pc = "done" /\ scan.exists)
          => ReturnedFiles = {ParsedPaths[i] : i \in 1 .. Len(ParsedPaths)}

\* a bad name came first in the directory and the file after it was returned
C25_Witness ==
    /\ scan.pc = "done"
    /\ scan.assignmentType = "single"
    /\ Len(scan.files) = 2
    /\ scan.files[1].name \in BadNames
    /\ scan.files[2].name = LateExample
    /\ Len(scan.submissions) = 1
    /\ scan.submissions[1].studentId = StudentA
    /\ scan.submissions[1].questionId = AssignmentId
    /\ scan.submissions[1].files = <<PathJoin(DownloadsDir, LateExample)>>

\* the writes into the numeric score input among ops
Fills(ops) == {i \in 1 .. Len(ops) : ops[i].op = "fill_grade"}

\* the selections in the categorical control among ops
Selects(ops) == {i \in 1 .. Len(ops) : ops[i].op = "select"}

C30_FinalizeTolerates ==
    [][\A buttons \in EngineFrames, o \in {"ok", "noconfirm"} :
          (/\ epc = "finalize"
           /\ UpdateButtonSearch(buttons).clicked = 0 \/ o = "noconfirm"
           /\ Finalize(buttons, o))
             => /\ Cardinality(FeedbackWrites(lastOps')) = 1
                /\ \A i \in FeedbackWrites(lastOps') : lastOps'[i].value = ReviewedText
                /\ \A i \in 1 .. Len(lastOps') : lastOps'[i].op \in {"feedback", "click_update"}
                /\ UpdateButtonSearch(buttons).clicked = 0 => Len(lastOps') = 1
                /\ ended'[roster[idx]] = "completed"
                /\ idx' = idx + 1
                /\ epc' = IF idx = Len(roster) THEN "finished" ELSE "navigate"]_vars

\* a review was finalized without the control and went on to the next student
C30_Witness ==
    /\ cur.finalized
    /\ actor = cur.student
    /\ lastOps = <<Write("feedback", "", ReviewedText, <<>>)>>
    /\ ended[cur.student] = "completed"
    /\ epc = "navigate"
    /\ idx = 2
    /\ roster[1] = cur.student

\* the run is over
RunOver == epc \in {"finished", "aborted"}

\* the steps processAssignment has at most before it leaves the current
\* student, from where it is
StepsLeft ==
    CASE epc = "navigate" -> 5 + MaxQueue
      [] epc \in {"tracker_feedback", "single", "check"} -> 4 + MaxQueue
      [] epc \in {"default_feedback", "frame"} -> 3 + MaxQueue
      [] epc = "question" -> 2 + Len(queue)
      [] epc = "finalize" -> 1
      [] OTHER -> 0

\* the steps the run has at most before it is over
Remaining == (Len(roster) + 1 - idx) * (6 + MaxQueue) + StepsLeft

(* C28: the students are processed strictly in the order of the roster the   *)
(* surface returned: the roster does not change during the run, every step   *)
(* acts for the student at the current position, the position moves by one   *)
(* at a time and never back, and the engine navigates once to each student.  *)
(* The run terminates after the last student: every step of the engine       *)
(* brings the run closer to its end, the step that leaves the last student   *)
(* finishes it, and a run that is over takes no further step.                *)
C28_RosterOrder ==
    [][/\ epc # "init" => roster' = roster
       /\ epc # "init" => idx' \in {idx, idx + 1}
       /\ (epc # "init" /\ actor' # "") => actor' = roster[idx]
       /\ (epc = "navigate" /\ actor' # "") => (idx' = idx + 1 \/ epc' # "navigate")
       /\ (epc \notin {"init", "navigate"} /\ epc' = "navigate") => idx' = idx + 1
       /\ (epc # "init" /\ idx' = idx + 1)
             => epc' = IF idx = Len(roster) THEN "finished" ELSE "navigate"
       /\ epc' = "finished" => idx' = Len(roster') + 1
       /\ (epc # "init" /\ actor' # "") => (Remaining' < Remaining /\ Remaining' >= 0)
       /\ RunOver => UNCHANGED engineVars]_vars

\* a run over a roster of two students finished after the second
C28_Witness ==
    /\ epc = "finished"
    /\ Len(roster) = 2
    /\ idx = 3
    /\ actor = roster[2]
    /\ cur.student = roster[2]
    /\ \A s \in Students : ended[s] # "no"

-----------------------------------------------------------------------------
(* clickUpdateScoreButton, one strategy at a time *)

\* the call: the frame has the buttons given
SearchStart(buttons) ==
    /\ search.pc = "idle"
    /\ search' = [SearchIdle EXCEPT !.pc = "text", !.buttons = buttons]
    /\ UNCHANGED <<storeVars, oracleVars, batchVars, engineVars, driver, scan, responses, request>>

\* 1. the button is looked for by its text and clicked by the selector made
\* of its id or of its first class; a click that raises ends the search
TryTextContent ==
    /\ search.pc = "text"
    /\ LET found == ByTextContent(search.buttons)
           selector == ButtonSelector(search.buttons[found])
       IN  search' = IF found = 0 THEN [search EXCEPT !.pc = "common"]
                     ELSE IF selector.kind = "invalid"
                     THEN [search EXCEPT !.pc = "done", !.strategy = 1, !.error = TRUE]
                     ELSE [search EXCEPT
                              !.pc = "done", !.strategy = 1,
                              !.clicked = First(SelectorMatches(search.buttons, selector))]
    /\ UNCHANGED <<storeVars, oracleVars, batchVars, engineVars, driver, scan, responses, request>>

\* 2. the common selectors are tried in their order
TryCommonSelectors ==
    /\ search.pc = "common"
    /\ LET common == ByCommonSelector(search.buttons)
       IN  search' = IF common = 0 THEN [search EXCEPT !.pc = "scan"]
                     ELSE [search EXCEPT
                              !.pc = "done", !.strategy = 2,
                              !.clicked = First(SelectorMatches(search.buttons,
                                                                CommonSelectors[common]))]
    /\ UNCHANGED <<storeVars, oracleVars, batchVars, engineVars, driver, scan, responses, request>>

\* 3. every button is looked at for an update-related text; when none has
\* one a warning is logged
TryUpdateText ==
    /\ search.pc = "scan"
    /\ LET text == ByUpdateText(search.buttons)
       IN  search' = IF text = 0 THEN [search EXCEPT !.pc = "done"]
                     ELSE [search EXCEPT !.pc = "done", !.strategy = 3, !.clicked = text]
    /\ UNCHANGED <<storeVars, oracleVars, batchVars, engineVars, driver, scan, responses, request>>

SearchNext ==
    \/ \E buttons \in Frames : SearchStart(buttons)
    \/ TryTextContent
    \/ TryCommonSelectors
    \/ TryUpdateText

SpecSearch == StoreInit /\ [][SearchNext]_vars

\* the first button whose text matches one of the label patterns
ByLabel(buttons) ==
    First({i \in 1 .. Len(buttons) :
              i \in {ByTextContent(buttons), ByUpdateText(buttons)} \ {0}})

\* the control to click when the identifiers are tried before the scan of
\* the labels
ControlByIdentifierFirst(buttons) ==
    IF ByCommonSelector(buttons) # 0
    THEN First(SelectorMatches(buttons, CommonSelectors[ByCommonSelector(buttons)]))
    ELSE ByLabel(buttons)

(* C31: the 'update score' control is looked for by the control identifiers  *)
(* first and by a scan of the labels of all buttons last; the control found  *)
(* by the first strategy that matches is the one clicked, and no other is.   *)
C31_StrategyOrder ==
    search.pc = "done"
       => /\ search.clicked = ControlByIdentifierFirst(search.buttons)
          /\ ~search.error

-----------------------------------------------------------------------------
(* The response listener beside the student loop of a single-question        *)
(* assignment without a ledger *)

\* the bodies of speed_grader.json: they mention one student, or both, or
\* none; the last one is not JSON or cannot be parsed
ListenerBodies ==
    {<<BodySubmission("S1", "false", "submitted")>>,
     <<BodySubmission("S1", "false", "graded")>>,
     <<BodySubmission("S2", "true", "unsubmitted")>>,
     <<BodySubmission("S1", "true", "unsubmitted"), BodySubmission("S2", "false", "graded")>>,
     <<>>}

ListenerNext ==
    \/ \E r \in Rosters, o \in SurfaceOutcomes : StartRun(r, o)
    \/ \E body \in ListenerBodies : ResponseArrives(body)
    \/ \E i \in 1 .. MaxInFlight : ResponseRecorded(i)
    \/ \E o \in SurfaceOutcomes : Navigate(o)
    \/ \E o \in FeedbackOutcomes : TrackerFeedback(o)
    \/ \E inp \in {BaseInput}, o \in FeedbackOutcomes : Single(inp, o)

ListenerInit ==
    /\ EngineInit
    /\ config = [assignmentType |-> "single", binaryScore |-> FALSE]
    /\ ~ledger.exists

SpecListener == ListenerInit /\ [][ListenerNext]_vars

\* the entry the last submission of a body that mentions the student carries
CarriedFor(body, s) ==
    LET last == CHOOSE i \in Mentions(body, s) : \A j \in Mentions(body, s) : j <= i
    IN  [known |-> TRUE,
         hasSubmission |-> body[last].missing = "false",
         hasGraded |-> body[last].workflow_state = "graded"]

(* C32, as claimed: once every response that arrived has been recorded, the  *)
(* tracker's entry of each student is the status carried by the response     *)
(* that arrived last among those mentioning the student.                     *)
C32_LastArrivedWins ==
    responses.inflight = <<>> => tracker = responses.arrived

(* C32, amended: the tracker's entry of each student is the status carried   *)
(* by the response recorded last among those mentioning the student, that    *)
(* is the one whose body was read last, whatever the order of arrival.       *)
(* Recording a response changes the entries of the students it mentions and  *)
(* no other entry, no entry is ever removed, and no step of the engine       *)
(* changes the tracker.                                                      *)
C32_LastRecordedWins ==
    [][/\ \A i \in 1 .. Len(responses.inflight) :
             ResponseRecorded(i)
                => \A s \in Students :
                      tracker'[s] = IF Mentions(responses.inflight[i], s) = {} THEN tracker[s]
                                    ELSE CarriedFor(responses.inflight[i], s)
       /\ \A s \in Students : tracker[s].known => tracker'[s].known
       /\ actor' # "" => tracker' = tracker
       /\ responses'.inflight = responses.inflight => tracker' = tracker]_vars

\* two responses that mention S1 arrived and were recorded, the one that
\* arrived first being recorded last, while S2 has no entry
C32_Witness ==
    /\ responses.inflight = <<>>
    /\ tracker["S1"].known
    /\ tracker["S1"] # responses.arrived["S1"]
    /\ ~tracker["S2"].known

-----------------------------------------------------------------------------
(* The rubric of a request.  A rubric text is a sequence of pieces: a run of *)
(* plain text or a placeholder.                                              *)

\* the number of pieces of a rubric text
MaxRubric == 3

\* the placeholder GradingService replaces, and the one the engine replaces
ServicePlaceholder == "{maxPoint}"
EnginePlaceholder == "{maxPoints}"

RubricPieces == {"text", ServicePlaceholder, EnginePlaceholder}

\* the rubric texts a rubric file may hold
RubricTexts == UNION {[1 .. n -> RubricPieces] : n \in 1 .. MaxRubric}

\* String.prototype.replace(pattern, replacement) with a string pattern: the
\* first occurrence of the pattern is replaced
Replace(text, pattern, replacement) ==
    LET hits == {i \in 1 .. Len(text) : text[i] = pattern}
    IN  IF hits = {} THEN text
        ELSE [text EXCEPT ![CHOOSE i \in hits : \A j \in hits : i <= j] = replacement]

\* the #MaxPoint a question file may have
MaxPointValues == {JsUndefined, JsNum(0), JsNum(10)}

\* loadQuestions and loadRubric: the rubric text of the file
LoadRubric(text) ==
    /\ request.pc = "idle"
    /\ request' = [request EXCEPT !.pc = "loaded", !.template = text]
    /\ UNCHANGED <<storeVars, oracleVars, batchVars, engineVars, driver, scan, search, responses>>

\* gradeSubmission and addBatchItem of GradingService: the rubric of the prompt
ServiceRubric(maxPoint) ==
    /\ request.pc = "loaded"
    /\ LET points == MaxPointOf([questionId |-> "Q1", maxPoint |-> maxPoint])
       IN  request' = [request EXCEPT
               !.pc = "sent",
               !.client = "service",
               !.maxPoints = points,
               !.rubric = Replace(request.template, ServicePlaceholder, ToString(points))]
    /\ UNCHANGED <<storeVars, oracleVars, batchVars, engineVars, driver, scan, search, responses>>

\* processFileUploadQuestion and processRegularQuestion: the rubric of the
\* request to gradeSubmission
EngineRubric(maxPoints) ==
    /\ request.pc = "loaded"
    /\ request' = [request EXCEPT
           !.pc = "sent",
           !.client = "engine",
           !.maxPoints = maxPoints,
           !.rubric = Replace(request.template, EnginePlaceholder, ToString(maxPoints))]
    /\ UNCHANGED <<storeVars, oracleVars, batchVars, engineVars, driver, scan, search, responses>>

RubricNext ==
    \/ \E text \in RubricTexts : LoadRubric(text)
    \/ \E m \in MaxPointValues : ServiceRubric(m)
    \/ \E m \in {0, 10} : EngineRubric(m)

SpecRubric == StoreInit /\ [][RubricNext]_vars

\* the placeholder of the client that built the request
PlaceholderOf(client) == IF client = "service" THEN ServicePlaceholder ELSE EnginePlaceholder

\* C37: the rubric sent to the oracle has the points of the question in
\* place of every occurrence of the placeholder and no placeholder is left,
\* in the compute-phase client and in the engine.
C37_PlaceholderSubstituted ==
    request.pc = "sent" =>
        /\ Len(request.rubric) = Len(request.template)
        /\ \A i \in 1 .. Len(request.template) :
              /\ request.rubric[i] # PlaceholderOf(request.client)
              /\ request.template[i] = PlaceholderOf(request.client) =>
                    request.rubric[i] = ToString(request.maxPoints)

-----------------------------------------------------------------------------
(* The batches of the parallel compute drivers.                              *)

\* the positions of the batch whose oracle call has not settled
InFlight(d) == {i \in 1 .. Len(d.batch) : d.batch[i].state = "pending"}

\* the step starts an oracle call
StartsCall ==
    \E i \in InFlight(driver') : i \notin InFlight(driver) \/ driver'.batch[i].sub # driver.batch[i].sub

\* C34: the number of oracle calls in flight never exceeds the batch size of
\* the driver, and a call starts only when no call of an earlier batch is
\* still in flight.
C34_BoundedFanOut ==
    [][/\ Cardinality(InFlight(driver')) <= BatchSize
       /\ StartsCall => InFlight(driver) = {}]_vars

\* a later batch is in flight after an earlier one was flushed
C34_Witness ==
    /\ driver.processedCount > 0
    /\ Cardinality(InFlight(driver)) = 1
    /\ \E i \in 1 .. Len(driver.batch) : Len(driver.listed) = 3 /\ driver.batch[i].sub = driver.listed[3]

\* the records of the store rs are all in the ledger file, under their keys
AllIn(rs, file) ==
    /\ file.exists
    /\ Len(file.text) = Len(rs)
    /\ \A i \in 1 .. Len(rs) :
          /\ ParseLedger(file.text)[i].studentId = rs[i].studentId
          /\ ParseLedger(file.text)[i].questionId = rs[i].questionId

\* C33: in the compute driver the ledger is not written and no result is
\* added while an oracle call is in flight; the results of a batch are added
\* once every call of the batch has settled, and the ledger written then holds
\* every result of the store, those of the batch included.
C33_FlushAfterBatch ==
    [][/\ InFlight(driver) # {} => results' = results /\ ledger' = ledger
       /\ ledger' # ledger => InFlight(driver') = {} /\ AllIn(results', ledger')
       /\ (driver.batch # <<>> /\ driver'.batch = <<>> /\ driver'.pc = "loop") =>
             /\ ledger' = SaveResultsOp(results')
             /\ \A i \in 1 .. Len(driver.batch) :
                   driver.batch[i].state = "result" =>
                      ResultExists(ParseLedger(ledger'.text),
                                   driver.batch[i].sub.studentId,
                                   driver.batch[i].sub.questionId)]_vars

\* a full batch has been flushed to the ledger
C33_Witness ==
    /\ driver.kind = "batched"
    /\ driver.pc = "loop"
    /\ driver.batch = <<>>
    /\ driver.processedCount = BatchSize
    /\ AllIn(results, ledger)
    /\ Len(results) >= BatchSize

\* C39: when the compute driver has finished without a fatal error, every
\* listed submission with a rubric and without a stored result at the start
\* has a result in the ledger.
C39_EverySubmissionGraded ==
    driver.pc = "done" =>
        \A i \in 1 .. Len(driver.listed) :
            (driver.listed[i].questionId \in Rubrics /\ ~InLoadedStore(driver.listed[i])) =>
                /\ ledger.exists
                /\ ResultExists(ParseLedger(ledger.text), driver.listed[i].studentId,
                                driver.listed[i].questionId)

-----------------------------------------------------------------------------
(* The input file of a batch.                                                *)

\* no line of the file has the token of another line
NoTokenTwice(lines) ==
    \A i, j \in 1 .. Len(lines) : lines[i] = lines[j] => i = j

\* C35: the input file written by each batchGradingResult call has exactly
\* one line for each request added for that batch, tagged with the token of
\* the request, and so no line of a batch submitted before; no token is on
\* two lines.
C35_OneLinePerRequest ==
    \A k \in 1 .. Len(artifacts.written) :
        /\ artifacts.written[k].lines = artifacts.written[k].added
        /\ NoTokenTwice(artifacts.written[k].lines)

-----------------------------------------------------------------------------
(* The files of a completed job.                                             *)

\* C36: when the results of a completed job that has both an output file and
\* an error file have been parsed, both files have been fetched and saved.
C36_BothArtifactsFetched ==
    (/\ batchStatus = "parsed"
     /\ job.status = "completed"
     /\ job.output_file_id
     /\ job.error_file_id) => job.fetched /\ job.errorFetched

-----------------------------------------------------------------------------
(* Finalize after the review queue.                                          *)

\* the student being processed needs review: checkSubmissionStatus returned
\* a review queue for the student
InReview == epc \in {"frame", "question", "finalize"}

\* the step runs finalizeGrading for the student being processed
RunsFinalize == epc = "finalize" /\ actor' = cur.student

\* the step ends the processing of a student who needs review
EndsReview == InReview /\ ended[cur.student] = "no" /\ ended'[cur.student] # "no"

\* finalizeGrading runs only when it has not run for the student and every
\* question of the review queue has been attempted, and nothing else sets
\* the student finalized
FinalizeInOrder ==
    /\ RunsFinalize => /\ ~cur.finalized
                       /\ cur.attempted = ToSet(cur.queue0)
                       /\ cur'.finalized
                       /\ ended'[cur.student] # "no"
    /\ cur'.finalized /\ ~cur.finalized => RunsFinalize
    /\ cur.finalized => ended[cur.student] # "no"

\* C38 as stated: finalize runs exactly once for each student whose
\* submission needs review, after every question of the review queue has
\* been attempted and never before, whatever the number of questions that
\* failed.
C38_FinalizeExactlyOnce ==
    [][/\ FinalizeInOrder
       /\ EndsReview => cur'.finalized]_vars

\* C38: finalize runs exactly once for each student whose submission needs
\* review and whose grader frame was acquired, after every question of the
\* review queue has been attempted and never before, whatever the number of
\* questions that failed; without the frame it does not run.
C38_FinalizeOnceWithFrame ==
    [][/\ FinalizeInOrder
       /\ EndsReview => cur'.finalized = (epc # "frame")]_vars

\* a student whose two questions both failed has been finalized
C38_Witness ==
    /\ cur.finalized
    /\ Len(cur.queue0) = 2
    /\ cur.qfailed = ToSet(cur.queue0)
    /\ ended[cur.student] = "completed"

====
